---- MODULE Spec2Model ----
(***************************************************************************)
(* Scan orchestration of Auxiom-IT/risk-assessments:                       *)
(* src/src/utils/scanners/index.ts (setScannerTimeout, withTimeout,        *)
(* SCANNERS, interpretScannerResult, runAllScanners, runScanner) and its   *)
(* caller runScanners of src/src/context/AppStateContext.tsx.              *)
(*                                                                         *)
(* Spec is a batch with any callback; SpecConfig is a batch under          *)
(* configuration calls of every kind; SpecOne is a runScanner call next to *)
(* a batch; SpecInterpret is interpretScannerResult applied to a result;   *)
(* SpecGate is the provider's runScanners in front of the cache and the    *)
(* rate limiter; SpecMap is the synchronous part of runAllScanners taken   *)
(* statement by statement; SpecTwo is a batch next to a second batch and a *)
(* runScanner call; SpecOverlap is two overlapping runScanners calls;      *)
(* SpecProbe is the run of one scanner (dns, emailAuth, certificates,      *)
(* rdap) against what its upstream calls meet, recorded and interpreted.   *)
(*                                                                         *)
(* JavaScript objects are modelled as functions whose domain is the set of *)
(* own property names, so that Object.assign and optional properties       *)
(* (scanner.timeout, r.issues) behave as in the source.  One behaviour of  *)
(* the model is one call of runAllScanners together with the event loop    *)
(* that serves it: a step is the settlement of a run or the expiry of a    *)
(* timer, together with the promise reaction it triggers.                  *)
(***************************************************************************)
EXTENDS Integers, Sequences, FiniteSets, TLC

\* ------------------------------------------------------------------ bounds
\* Number of entries of the registry that take part in a batch (a prefix of
\* the six scanners the source registers).
NumScanners == 2

\* ------------------------------------------------------- values and helpers
\* The JavaScript value undefined, where it is stored in a string property.
Undefined == "undefined"

\* new Date().toISOString(): the wall clock is not modelled, every timestamp
\* is the same opaque ISO string.
NowISO == "ISO-8601"

\* i18next.t(key, { ns: 'scanners' }) for a label key: the English text of
\* that key, the key itself when there is none.
Translate(key) ==
  CASE key = "dns.label" -> "DNS Records"
    [] key = "emailAuth.label" -> "Email Authentication"
    [] key = "certificates.label" -> "SSL/TLS Certificates"
    [] key = "rdap.label" -> "Domain Registration (RDAP)"
    [] key = "sslLabs.label" -> "SSL/TLS Configuration"
    [] key = "securityHeaders.label" -> "Security Headers"
    [] key = "common.errors.scannerFailed" -> "Scanner failed to execute"
    [] key = "common.errors.retryMessage" ->
         "This check could not be completed. Please try again or check your network connection."
    [] OTHER -> key

\* i18next.t('common.errors.timeout', { label, timeout }): the template
\* '{{label}} timed out after {{timeout}}ms' with both values interpolated.
TimeoutMessage(label, timeout) ==
  [template |-> "{{label}} timed out after {{timeout}}ms",
   label |-> label, timeout |-> timeout]

\* The message of an Error constructed from a plain string.
PlainMessage(text) == [text |-> text]

\* new Error(message)
NewError(message) == [isError |-> TRUE, message |-> message]

\* Variant: the generic text is recorded whatever was thrown.
ErrorText_Generic(err) == PlainMessage("Unknown error")

\* err instanceof Error ? err.message : 'Unknown error'
ErrorText(err) ==
  IF err.isError THEN err.message ELSE PlainMessage("Unknown error")

\* Object.assign(target, source): own properties of source overwrite or
\* extend those of target.
Assign(target, source) ==
  [f \in (DOMAIN target) \cup (DOMAIN source) |->
     IF f \in DOMAIN source THEN source[f] ELSE target[f]]

\* String.prototype.trim and toLowerCase on a string given as a sequence of
\* characters.
IsSpace(c) == c = " "

RECURSIVE TrimStart(_)
TrimStart(s) ==
  IF s # <<>> /\ IsSpace(Head(s)) THEN TrimStart(Tail(s)) ELSE s

RECURSIVE TrimEnd(_)
TrimEnd(s) ==
  IF s # <<>> /\ IsSpace(s[Len(s)]) THEN TrimEnd(SubSeq(s, 1, Len(s) - 1)) ELSE s

Trim(s) == TrimEnd(TrimStart(s))

LowerChar(c) ==
  CASE c = "A" -> "a"
    [] c = "B" -> "b"
    [] OTHER -> c

ToLowerCase(s) == [k \in 1..Len(s) |-> LowerChar(s[k])]

\* ------------------------------------------------------------- the registry
\* The six scanner definitions, in the order of the SCANNERS array.  A scanner
\* without a timeout or dataSource property has no such name in its domain;
\* none defines deriveIssues.
AllScanners ==
  << [id |-> "dns", label |-> "dns.label", timeout |-> 5000,
      dataSource |-> "Google Public DNS"],
     [id |-> "emailAuth", label |-> "emailAuth.label"],
     [id |-> "certificates", label |-> "certificates.label",
      dataSource |-> "TLS"],
     [id |-> "rdap", label |-> "rdap.label", timeout |-> 10000,
      dataSource |-> "RDAP"],
     [id |-> "sslLabs", label |-> "sslLabs.label", timeout |-> 600000,
      dataSource |-> "Qualys SSL Labs"],
     [id |-> "securityHeaders", label |-> "securityHeaders.label",
      timeout |-> 15000, dataSource |-> "securityheaders.com"] >>

SCANNERS == SubSeq(AllScanners, 1, NumScanners)

Idx == 1..Len(SCANNERS)

\* Variant: the default is used whether or not the scanner declares a timeout.
TimeoutOf_DefaultOnly(scanner, default) == default

\* scanner.timeout ?? DEFAULT_SCANNER_TIMEOUT
TimeoutOf(scanner, default) ==
  IF "timeout" \in DOMAIN scanner THEN scanner.timeout ELSE default

\* scanner.dataSource, undefined when the scanner declares none.
DataSourceOf(scanner) ==
  IF "dataSource" \in DOMAIN scanner THEN scanner.dataSource ELSE Undefined

\* ------------------------------------------------------------------ inputs
\* Raw domain strings handed to runAllScanners.
Domains == { <<"a", "b">>, <<" ", "A", "b", " ">> }

\* Values a scanner's run may resolve with: summary, optional issues, optional
\* data.
Outcomes ==
  { [summary |-> "ok", issues |-> <<>>],
    [summary |-> "ok", issues |-> <<"a">>],
    [summary |-> "found", issues |-> <<"b", "c">>, data |-> "payload"],
    [summary |-> "ok", data |-> "payload"] }

\* Values a scanner's run may reject with: an Error, or a value that is not an
\* Error.
Rejections ==
  { NewError(PlainMessage("upstream 500")),
    [isError |-> FALSE, value |-> "boom"] }

\* What an onProgress callback throws when it throws.
CallbackError == NewError(PlainMessage("callback failed"))

\* A JavaScript number: a finite one carries its value, NaN and the two
\* infinities are the values that are not finite.
Num(n) == [finite |-> TRUE, value |-> n]

NaN == [finite |-> FALSE, name |-> "NaN"]

PosInfinity == [finite |-> FALSE, name |-> "Infinity"]

NegInfinity == [finite |-> FALSE, name |-> "-Infinity"]

\* Arguments given to setScannerTimeout.
TimeoutInputs ==
  { Num(0), Num(-1), Num(1000), Num(30000), NaN, PosInfinity, NegInfinity }

\* The arguments a batch is run under: those that change the default.
Reconfigurations == { Num(1000), Num(30000) }

\* ------------------------------------------------------------------- state
VARIABLES
  DEFAULT_SCANNER_TIMEOUT, \* the module-level default deadline (ms)
  phase,                   \* position of the runAllScanners call
  trimmed,                 \* const trimmed
  onProgress,              \* "undefined" or "fn": the optional callback
  results,                 \* const results: the base objects, by position
  timeoutMs,               \* const timeoutMs of each map iteration
  run,                     \* state of each scanner.run(trimmed) promise
  timer,                   \* state of each setTimeout of withTimeout
  race,                    \* state of each withTimeout(...) promise
  chain,                   \* state of each .then(...).catch(...) promise:
                           \* pending, settled, or "catch" while the .catch
                           \* callback has yet to run after .then threw
  callCount,               \* how many times onProgress has been invoked
  firstCall,               \* <<>> or <<the first invocation of onProgress>>
  lastCall,                \* <<>> or <<the latest invocation of onProgress>>
  aggregate,               \* <<>> or <<the value runAllScanners resolved to>>
  thrown,                  \* <<>> or <<what the latest setScannerTimeout threw>>
  one,                     \* the runScanner call: its position, and once it
                           \* has a scanner, its run, its timer and its outcome
  subject,                 \* <<>> or <<the result given to interpretScannerResult>>
  interpretation,          \* <<>> or <<what interpretScannerResult returned>>
  probe,                   \* one scanner's run on its own: what its upstream
                           \* calls gave and how the run settled
  scannerProgress,         \* state of the provider: the progress list
  domainScanAggregate,     \* state of the provider: <<>> or <<the aggregate>>
  storedAggregate,         \* localStorage[DOMAIN_AGG_KEY]: <<>> or <<aggregate>>
  cache,                   \* scannerCache: aggregates by normalised domain
  scan,                    \* the runScanners call: its position and locals
  second,                  \* a second runAllScanners call: its position and
                           \* its own trimmed, results, timeoutMs, runs, timers
  secondScan               \* a second runScanners call: its position and locals

vars ==
  << DEFAULT_SCANNER_TIMEOUT, phase, trimmed, onProgress, results, timeoutMs,
     run, timer, race, chain, callCount, firstCall, lastCall, aggregate,
     thrown, one, subject, interpretation, probe, scannerProgress,
     domainScanAggregate, storedAggregate, cache, scan, second, secondScan >>

batchVars ==
  << phase, trimmed, onProgress, results, timeoutMs, run, timer, race, chain,
     callCount, firstCall, lastCall, aggregate, scannerProgress >>

\* The argument and the value of an interpretScannerResult call, and the run
\* that produced the argument.
interpretVars == << subject, interpretation, probe >>

\* The provider's aggregate, its stored copy, the cache and the runScanners
\* call.
appVars == << domainScanAggregate, storedAggregate, cache, scan >>

\* The calls made while the first runAllScanners or runScanners call is under
\* way.
concurrentVars == << second, secondScan >>

\* What lives outside a runAllScanners call and the module-level default.
otherVars == << one, interpretVars, appVars, concurrentVars >>

\* What lives outside a runScanner call.
besideOne ==
  << DEFAULT_SCANNER_TIMEOUT, batchVars, thrown, interpretVars, appVars,
     concurrentVars >>

\* The module as loaded, with no call made yet.
Loaded ==
  /\ DEFAULT_SCANNER_TIMEOUT = 30000
  /\ phase = "idle"
  /\ trimmed = <<>>
  /\ onProgress = "undefined"
  /\ results = <<>>
  /\ timeoutMs = <<>>
  /\ run = <<>>
  /\ timer = <<>>
  /\ race = <<>>
  /\ chain = <<>>
  /\ callCount = 0
  /\ firstCall = <<>>
  /\ lastCall = <<>>
  /\ aggregate = <<>>
  /\ thrown = <<>>
  /\ one = [phase |-> "idle"]
  /\ scannerProgress = <<>>
  /\ domainScanAggregate = <<>>
  /\ storedAggregate = <<>>
  /\ scan = [phase |-> "idle"]
  /\ second = [phase |-> "idle"]
  /\ secondScan = [phase |-> "idle"]
  /\ probe = [phase |-> "idle"]

Init ==
  /\ Loaded
  /\ cache = {}
  /\ subject = <<>>
  /\ interpretation = <<>>

\* --------------------------------------------------------- setScannerTimeout
\* Number.isFinite(ms)
IsFinite(ms) == ms.finite

\* Variant: only negative values compare as invalid.
LessOrEqualZero_Strict(ms) ==
  IF ms.finite THEN ms.value < 0 ELSE ms = NegInfinity

\* ms <= 0: false for NaN and Infinity, true for -Infinity.
LessOrEqualZero(ms) ==
  IF ms.finite THEN ms.value <= 0 ELSE ms = NegInfinity

\* new Error('Invalid timeout value')
InvalidTimeout == NewError(PlainMessage("Invalid timeout value"))

\* An invalid value throws before the assignment and leaves the default as
\* it was; a valid one is stored and the call returns.
setScannerTimeout(ms) ==
  /\ IF LessOrEqualZero(ms) \/ ~IsFinite(ms)
       THEN /\ thrown' = << InvalidTimeout >>
            /\ UNCHANGED DEFAULT_SCANNER_TIMEOUT
       ELSE /\ DEFAULT_SCANNER_TIMEOUT' = ms.value
            /\ thrown' = <<>>
  /\ UNCHANGED << batchVars, otherVars >>

\* ------------------------------------------------------------ runAllScanners
\* The base object built for one scanner by the map callback.
Base(scanner) ==
  [id |-> scanner.id,
   label |-> scanner.label,
   status |-> "running",
   startedAt |-> NowISO,
   data |-> Undefined,
   summary |-> Undefined,
   issues |-> <<>>,
   dataSource |-> DataSourceOf(scanner)]

\* results after SCANNERS.map has pushed one base per scanner.
InitialResults == [i \in Idx |-> Base(SCANNERS[i])]

\* Variant: the callback is handed only the entries that have finished.
Invocation_OnlySettled(res) ==
  [snapshot |-> SelectSeq(res, LAMBDA r : r.status # "running")]

\* onProgress?.([...results]): one invocation with a copy of the results
\* array.  The record of an invocation holds what the callback reads from its
\* argument during the call.
Invocation(res) == [snapshot |-> res]

\* The callback runScanners passes: the partial list with every entry's
\* issues made an array.
NormalizedPartial(partial) ==
  [m \in DOMAIN partial |->
     Assign(partial[m],
            [issues |-> IF "issues" \in DOMAIN partial[m]
                          THEN partial[m].issues ELSE <<>>])]

\* One onProgress?.(...) call: nothing without a callback; the provider's
\* callback stores the normalised list as the progress list.
Notify(cb, res) ==
  IF cb = "undefined"
    THEN UNCHANGED << callCount, firstCall, lastCall, scannerProgress >>
    ELSE /\ callCount' = callCount + 1
         /\ firstCall' = IF callCount = 0 THEN << Invocation(res) >>
                                         ELSE firstCall
         /\ lastCall' = << Invocation(res) >>
         /\ scannerProgress' = IF cb = "setScannerProgress"
                                 THEN NormalizedPartial(res)
                                 ELSE scannerProgress

\* Whether an onProgress?.(...) call with that outcome throws.
Throws(cb, outcome) == cb # "undefined" /\ outcome = "throws"

CallbackOutcomes == {"returns", "throws"}

\* The synchronous part of runAllScanners: normalise the domain, build every
\* base, start every run and its timer, make the initial onProgress call and
\* suspend at await Promise.allSettled.  A throwing initial callback rejects
\* the call; the scanners it started keep running.
runAllScanners(d, cb, outcome) ==
  /\ phase = "idle"
  /\ cb = "undefined" => outcome = "returns"
  /\ trimmed' = ToLowerCase(Trim(d))
  /\ onProgress' = cb
  /\ results' = InitialResults
  /\ timeoutMs' = [i \in Idx |-> TimeoutOf(SCANNERS[i], DEFAULT_SCANNER_TIMEOUT)]
  /\ run' = [i \in Idx |-> "pending"]
  /\ timer' = [i \in Idx |-> "armed"]
  /\ race' = [i \in Idx |-> [state |-> "pending"]]
  /\ chain' = [i \in Idx |-> [state |-> "pending"]]
  /\ Notify(cb, InitialResults)
  /\ phase' = IF Throws(cb, outcome) THEN "rejected" ELSE "awaiting"
  /\ UNCHANGED << DEFAULT_SCANNER_TIMEOUT, aggregate, thrown >>

\* A call of runAllScanners made directly, by a caller with no state of its
\* own.
Start(d, cb, outcome) ==
  /\ runAllScanners(d, cb, outcome)
  /\ UNCHANGED otherVars

Started == phase # "idle"

\* r.issues || scanner.deriveIssues?.(r, trimmed) || []
IssuesFor(scanner, r) ==
  IF "issues" \in DOMAIN r THEN r.issues ELSE <<>>

\* Object.assign(base, r, { status: 'complete', issues, finishedAt })
Completed(base, scanner, r) ==
  Assign(Assign(base, r),
         [status |-> "complete", issues |-> IssuesFor(scanner, r),
          finishedAt |-> NowISO])

\* The .then callback of scanner i, given the value r of its race: record
\* completion, notify.  If the notification throws, the chain continues in
\* the .catch callback with what was thrown.
ThenCallback(i, r, outcome) ==
  /\ results' = [results EXCEPT ![i] = Completed(results[i], SCANNERS[i], r)]
  /\ Notify(onProgress, results')
  /\ chain' = [chain EXCEPT ![i] =
                 IF Throws(onProgress, outcome)
                   THEN [state |-> "catch", reason |-> CallbackError]
                   ELSE [state |-> "settled"]]

\* Variant: the failure is also reported as an entry of the scanner's issues.
Failed_WithIssue(base, err) ==
  Assign(base, [status |-> "error", error |-> ErrorText(err),
                finishedAt |-> NowISO, issues |-> << "failed" >>])

\* base.status = 'error'; base.error = ...; base.finishedAt = ...
Failed(base, err) ==
  Assign(base, [status |-> "error", error |-> ErrorText(err),
                finishedAt |-> NowISO])

\* Variant: a failure also marks every scanner that is still running as
\* failed, as an orchestrator that aborts the batch would.
CatchCallback_FailFast(i, err, outcome) ==
  /\ results' = [j \in Idx |->
                   IF j = i \/ results[j].status = "running"
                     THEN Failed(results[j], err)
                     ELSE results[j]]
  /\ Notify(onProgress, results')
  /\ chain' = [chain EXCEPT ![i] = [state |-> "settled"]]

\* The .catch callback of scanner i, given the reason err: record the error,
\* notify.  The scanner's promise is then settled: fulfilled with base, or
\* rejected if the notification threw, which Promise.allSettled does not tell
\* apart.
CatchCallback(i, err, outcome) ==
  /\ results' = [results EXCEPT ![i] = Failed(results[i], err)]
  /\ Notify(onProgress, results')
  /\ chain' = [chain EXCEPT ![i] = [state |-> "settled"]]

\* A step that makes no onProgress call has no callback outcome to choose.
NoCall(outcome) == outcome = "returns"

\* Variant: a run that resolves after its timer has fired still records its
\* value.
RunResolves_LastWins(i, r, outcome) ==
  /\ Started
  /\ run[i] = "pending"
  /\ onProgress = "undefined" => NoCall(outcome)
  /\ run' = [run EXCEPT ![i] = "settled"]
  /\ race' = [race EXCEPT ![i] = [state |-> "fulfilled", value |-> r]]
  /\ ThenCallback(i, r, outcome)
  /\ UNCHANGED << DEFAULT_SCANNER_TIMEOUT, phase, trimmed, onProgress,
                  timeoutMs, timer, aggregate, thrown, otherVars >>

\* scanner.run(trimmed) resolves with r.  Promise.race adopts the first
\* settlement only; when the run wins, the .then callback runs as the reaction
\* to it.
RunResolves(i, r, outcome) ==
  /\ Started
  /\ run[i] = "pending"
  /\ onProgress = "undefined" => NoCall(outcome)
  /\ run' = [run EXCEPT ![i] = "settled"]
  /\ IF race[i].state = "pending"
       THEN /\ race' = [race EXCEPT ![i] = [state |-> "fulfilled", value |-> r]]
            /\ ThenCallback(i, r, outcome)
       ELSE /\ NoCall(outcome)
            /\ UNCHANGED << race, chain, results, callCount, firstCall, lastCall,
                            scannerProgress >>
  /\ UNCHANGED << DEFAULT_SCANNER_TIMEOUT, phase, trimmed, onProgress,
                  timeoutMs, timer, aggregate, thrown, otherVars >>

\* scanner.run(trimmed) rejects with err.  When the run wins the race, the
\* .then callback is skipped and the .catch callback runs with the same reason.
RunRejects(i, err, outcome) ==
  /\ Started
  /\ run[i] = "pending"
  /\ onProgress = "undefined" => NoCall(outcome)
  /\ run' = [run EXCEPT ![i] = "settled"]
  /\ IF race[i].state = "pending"
       THEN /\ race' = [race EXCEPT ![i] =
                          [state |-> "rejected", reason |-> err, by |-> "run"]]
            /\ CatchCallback(i, err, outcome)
       ELSE /\ NoCall(outcome)
            /\ UNCHANGED << race, chain, results, callCount, firstCall, lastCall,
                            scannerProgress >>
  /\ UNCHANGED << DEFAULT_SCANNER_TIMEOUT, phase, trimmed, onProgress,
                  timeoutMs, timer, aggregate, thrown, otherVars >>

\* Variant: the label key is interpolated without being translated.
TimeoutError_RawLabel(ms, scannerLabel) ==
  NewError(TimeoutMessage(scannerLabel, ms))

\* The Error the timer callback of withTimeout rejects with.
TimeoutError(ms, scannerLabel) ==
  NewError(TimeoutMessage(Translate(scannerLabel), ms))

\* Timers armed in the same synchronous block expire in order of their delay.
MayExpire(i) ==
  \A j \in Idx : timeoutMs[j] < timeoutMs[i] => timer[j] = "fired"

\* The setTimeout callback of withTimeout runs.  The timer is never cleared, so
\* it also runs after the run has settled, and then has no effect; when the
\* timer wins the race, the .catch callback runs with the timeout Error.
TimerFires(i, outcome) ==
  /\ Started
  /\ timer[i] = "armed"
  /\ MayExpire(i)
  /\ onProgress = "undefined" => NoCall(outcome)
  /\ timer' = [timer EXCEPT ![i] = "fired"]
  /\ IF race[i].state = "pending"
       THEN /\ race' = [race EXCEPT ![i] =
                          [state |-> "rejected",
                           reason |-> TimeoutError(timeoutMs[i], SCANNERS[i].label),
                           by |-> "timer"]]
            /\ CatchCallback(i, TimeoutError(timeoutMs[i], SCANNERS[i].label),
                             outcome)
       ELSE /\ NoCall(outcome)
            /\ UNCHANGED << race, chain, results, callCount, firstCall, lastCall,
                            scannerProgress >>
  /\ UNCHANGED << DEFAULT_SCANNER_TIMEOUT, phase, trimmed, onProgress,
                  timeoutMs, run, aggregate, thrown, otherVars >>

\* The .catch callback of scanner i runs because its .then callback threw.
CatchAfterThen(i, outcome) ==
  /\ Started
  /\ chain[i].state = "catch"
  /\ onProgress = "undefined" => NoCall(outcome)
  /\ CatchCallback(i, chain[i].reason, outcome)
  /\ UNCHANGED << DEFAULT_SCANNER_TIMEOUT, phase, trimmed, onProgress,
                  timeoutMs, run, timer, race, aggregate, thrown, otherVars >>

\* Variant: the wait ends as soon as one scanner promise has settled.
AllSettled_Any == \E i \in Idx : chain[i].state = "settled"

\* Promise.allSettled(scannerPromises) has settled.
AllSettled == \A i \in Idx : chain[i].state = "settled"

\* Variant: later scanners' issues are placed first.
RECURSIVE FlatMapIssues_Reversed(_)
FlatMapIssues_Reversed(rs) ==
  IF rs = <<>> THEN <<>>
  ELSE FlatMapIssues_Reversed(Tail(rs))
         \o (IF "issues" \in DOMAIN Head(rs) THEN Head(rs).issues ELSE <<>>)

\* results.flatMap((r) => r.issues || [])
RECURSIVE FlatMapIssues(_)
FlatMapIssues(rs) ==
  IF rs = <<>> THEN <<>>
  ELSE (IF "issues" \in DOMAIN Head(rs) THEN Head(rs).issues ELSE <<>>)
         \o FlatMapIssues(Tail(rs))

\* Variant: failed scanners are left out of the aggregate.
Aggregate_DropErrors(dom, res) ==
  [domain |-> dom, timestamp |-> NowISO,
   scanners |-> SelectSeq(res, LAMBDA r : r.status # "error"),
   issues |-> FlatMapIssues(res)]

\* Variant: the aggregate lists the completed scanners before the failed ones.
Aggregate_CompletedFirst(dom, res) ==
  [domain |-> dom, timestamp |-> NowISO,
   scanners |-> SelectSeq(res, LAMBDA r : r.status = "complete")
                  \o SelectSeq(res, LAMBDA r : r.status # "complete"),
   issues |-> FlatMapIssues(res)]

\* The object runAllScanners resolves with; its scanners property is the
\* results array itself.
Aggregate(dom, res) ==
  [domain |-> dom, timestamp |-> NowISO, scanners |-> res,
   issues |-> FlatMapIssues(res)]

\* The code after the await: flatten the issues and resolve with the
\* aggregate.
Return ==
  /\ phase = "awaiting"
  /\ AllSettled
  /\ aggregate' = << Aggregate(trimmed, results) >>
  /\ phase' = "returned"
  /\ UNCHANGED << DEFAULT_SCANNER_TIMEOUT, trimmed, onProgress, results,
                  timeoutMs, run, timer, race, chain, callCount, firstCall,
                  lastCall, scannerProgress, thrown, otherVars >>

\* ----------------------------------------------------------- specification
Next ==
  \/ \E ms \in Reconfigurations : setScannerTimeout(ms)
  \/ \E d \in Domains, cb \in {"undefined", "fn"}, o \in CallbackOutcomes :
       Start(d, cb, o)
  \/ \E i \in Idx, r \in Outcomes, o \in CallbackOutcomes : RunResolves(i, r, o)
  \/ \E i \in Idx, err \in Rejections, o \in CallbackOutcomes :
       RunRejects(i, err, o)
  \/ \E i \in Idx, o \in CallbackOutcomes : TimerFires(i, o)
  \/ \E i \in Idx, o \in CallbackOutcomes : CatchAfterThen(i, o)
  \/ Return

Spec == Init /\ [][Next]_vars

\* Configuration calls of every kind around a batch without a callback.
NextConfig ==
  \/ \E ms \in TimeoutInputs : setScannerTimeout(ms)
  \/ \E d \in Domains : Start(d, "undefined", "returns")
  \/ \E i \in Idx, r \in Outcomes : RunResolves(i, r, "returns")
  \/ \E i \in Idx : TimerFires(i, "returns")
  \/ Return

SpecConfig == Init /\ [][NextConfig]_vars

\* ------------------------------------- runAllScanners, statement by statement
\* The synchronous part of runAllScanners taken one statement at a time.  The
\* call is entered: the domain is normalised and results is the empty array.
runAllScannersEnters(d, cb) ==
  /\ phase = "idle"
  /\ phase' = "mapping"
  /\ trimmed' = ToLowerCase(Trim(d))
  /\ onProgress' = cb
  /\ results' = <<>>
  /\ timeoutMs' = <<>>
  /\ run' = <<>>
  /\ timer' = <<>>
  /\ race' = <<>>
  /\ chain' = <<>>
  /\ UNCHANGED << DEFAULT_SCANNER_TIMEOUT, callCount, firstCall, lastCall,
                  aggregate, scannerProgress, thrown, otherVars >>

\* The scanner the next call of the SCANNERS.map callback is for.
NextMapped == Len(results) + 1

\* One call of the SCANNERS.map callback: the base of this scanner is built
\* and pushed, its deadline is taken, its run is invoked on the normalised
\* domain and raced against its timer, and the reactions are attached.
MapCallback ==
  /\ phase = "mapping"
  /\ NextMapped <= Len(SCANNERS)
  /\ results' = Append(results, Base(SCANNERS[NextMapped]))
  /\ timeoutMs' = Append(timeoutMs,
                         TimeoutOf(SCANNERS[NextMapped], DEFAULT_SCANNER_TIMEOUT))
  /\ run' = Append(run, "pending")
  /\ timer' = Append(timer, "armed")
  /\ race' = Append(race, [state |-> "pending"])
  /\ chain' = Append(chain, [state |-> "pending"])
  /\ UNCHANGED << DEFAULT_SCANNER_TIMEOUT, phase, trimmed, onProgress,
                  callCount, firstCall, lastCall, aggregate, scannerProgress,
                  thrown, otherVars >>

\* The statement after the map: the initial onProgress call, after which the
\* call is suspended at its await, or rejected if the callback threw.
InitialProgress(outcome) ==
  /\ phase = "mapping"
  /\ NextMapped > Len(SCANNERS)
  /\ onProgress = "undefined" => NoCall(outcome)
  /\ Notify(onProgress, results)
  /\ phase' = IF Throws(onProgress, outcome) THEN "rejected" ELSE "awaiting"
  /\ UNCHANGED << DEFAULT_SCANNER_TIMEOUT, trimmed, onProgress, results,
                  timeoutMs, run, timer, race, chain, aggregate, thrown,
                  otherVars >>

\* The synchronous part runs to its end before any reaction or timer does.
Suspended == phase # "mapping"

\* A batch whose synchronous part is taken statement by statement.
NextMap ==
  \/ \E ms \in Reconfigurations : Suspended /\ setScannerTimeout(ms)
  \/ \E d \in Domains, cb \in {"undefined", "fn"} : runAllScannersEnters(d, cb)
  \/ MapCallback
  \/ \E o \in CallbackOutcomes : InitialProgress(o)
  \/ \E i \in Idx, r \in Outcomes :
       Suspended /\ RunResolves(i, r, "returns")
  \/ \E i \in Idx, err \in Rejections :
       Suspended /\ RunRejects(i, err, "returns")
  \/ \E i \in Idx : Suspended /\ TimerFires(i, "returns")
  \/ Suspended /\ Return

SpecMap == Init /\ [][NextMap]_vars

\* ---------------------------------------------------------------- runScanner
\* The characters of a scanner id, for comparing it with a string argument.
IdString(id) ==
  CASE id = "dns" -> <<"d", "n", "s">>
    [] id = "emailAuth" -> <<"e", "m", "a", "i", "l", "A", "u", "t", "h">>
    [] id = "certificates" ->
         <<"c", "e", "r", "t", "i", "f", "i", "c", "a", "t", "e", "s">>
    [] id = "rdap" -> <<"r", "d", "a", "p">>
    [] id = "sslLabs" -> <<"s", "s", "l", "L", "a", "b", "s">>
    [] id = "securityHeaders" ->
         <<"s", "e", "c", "u", "r", "i", "t", "y", "H", "e", "a", "d", "e",
           "r", "s">>

\* Strings handed to runScanner, as either argument: a domain, a domain with
\* spaces and capitals, and the ids of two registered scanners.
OneArgs ==
  { <<"a", "b">>, <<" ", "A", "b", " ">>, IdString("dns"),
    IdString("emailAuth") }

\* The positions of the scanners SCANNERS.find((s) => s.id === scannerId)
\* tests true; find returns the first of them, undefined when there is none.
Matches(scannerId) == {k \in Idx : IdString(SCANNERS[k].id) = scannerId}

\* Variant: an id that is not registered falls back to the first scanner.
Find_OrFirst(domain, scannerId) ==
  IF Matches(scannerId) = {} THEN {1} ELSE Matches(scannerId)

\* Positions found for a call runScanner(domain, scannerId).
Find(domain, scannerId) == Matches(scannerId)

\* 'Scanner not found: ' + scannerId
NotFoundMessage(scannerId) ==
  [text |-> "Scanner not found: ", scannerId |-> scannerId]

\* The synchronous part of runScanner(domain, scannerId): look the scanner up;
\* without one, throw, which rejects the call before any run is invoked;
\* otherwise take the deadline, invoke run on the normalised domain, arm the
\* timer and suspend at the await.
runScanner(domain, scannerId) ==
  /\ one.phase = "idle"
  /\ IF Find(domain, scannerId) = {}
       THEN one' = [phase |-> "rejected",
                    args |-> << domain, scannerId >>,
                    reason |-> NewError(NotFoundMessage(scannerId))]
       ELSE LET k == CHOOSE m \in Find(domain, scannerId) :
                       \A n \in Find(domain, scannerId) : m <= n
            IN one' = [phase |-> "awaiting",
                       args |-> << domain, scannerId >>,
                       scanner |-> k,
                       start |-> NowISO,
                       timeoutMs |-> TimeoutOf(SCANNERS[k], DEFAULT_SCANNER_TIMEOUT),
                       passed |-> ToLowerCase(Trim(domain)),
                       run |-> "pending",
                       timer |-> "armed",
                       race |-> [state |-> "pending"]]
  /\ UNCHANGED besideOne

\* The run and the timer of the runScanner call exist.
OneStarted == "run" \in DOMAIN one

\* The object the try block returns for the value r of the race.
OneCompleted(scanner, start, r) ==
  Assign(Assign([id |-> scanner.id, label |-> scanner.label,
                 status |-> "complete", startedAt |-> start,
                 finishedAt |-> NowISO], r),
         [issues |-> IssuesFor(scanner, r),
          dataSource |-> DataSourceOf(scanner)])

\* The call returns the completed result.
OneReturns(r) ==
  [phase |-> "returned",
   value |-> OneCompleted(SCANNERS[one.scanner], one.start, r)]

\* Variant: the caught error is thrown again instead of being returned as a
\* result.
OneCaught_Rethrow(err) == [phase |-> "rejected", reason |-> err]

\* The catch block: the call returns an error result for what was caught.
OneCaught(err) ==
  [phase |-> "returned",
   value |-> [id |-> SCANNERS[one.scanner].id,
              label |-> SCANNERS[one.scanner].label,
              status |-> "error", startedAt |-> one.start,
              finishedAt |-> NowISO, error |-> ErrorText(err),
              dataSource |-> DataSourceOf(SCANNERS[one.scanner])]]

\* The run of the runScanner call resolves with r: if it wins the race, the
\* call returns the completed result; after the timer has won, nothing
\* happens.
OneRunResolves(r) ==
  /\ OneStarted
  /\ one.run = "pending"
  /\ one' = IF one.race.state = "pending"
              THEN Assign(Assign(one, OneReturns(r)),
                          [run |-> "settled",
                           race |-> [state |-> "fulfilled", value |-> r]])
              ELSE [one EXCEPT !.run = "settled"]
  /\ UNCHANGED besideOne

\* The run of the runScanner call rejects with err: if it wins the race, the
\* catch block runs with err.
OneRunRejects(err) ==
  /\ OneStarted
  /\ one.run = "pending"
  /\ one' = IF one.race.state = "pending"
              THEN Assign(Assign(one, OneCaught(err)),
                          [run |-> "settled",
                           race |-> [state |-> "rejected", reason |-> err,
                                     by |-> "run"]])
              ELSE [one EXCEPT !.run = "settled"]
  /\ UNCHANGED besideOne

\* The timer of the runScanner call expires: if it wins the race, the catch
\* block runs with the timeout Error.
OneTimerFires ==
  /\ OneStarted
  /\ one.timer = "armed"
  /\ one' = IF one.race.state = "pending"
              THEN LET err == TimeoutError(one.timeoutMs,
                                           SCANNERS[one.scanner].label)
                   IN Assign(Assign(one, OneCaught(err)),
                             [timer |-> "fired",
                              race |-> [state |-> "rejected", reason |-> err,
                                        by |-> "timer"]])
              ELSE [one EXCEPT !.timer = "fired"]
  /\ UNCHANGED besideOne

\* What the scanners of the batch next to a runScanner call do.
SiblingDomain == <<"a", "b">>

SiblingOutcome == [summary |-> "ok", issues |-> <<"a">>]

SiblingRejection == NewError(PlainMessage("upstream 500"))

\* A runScanner call next to a batch whose caller passes no callback.
NextOne ==
  \/ setScannerTimeout(Num(1000))
  \/ Start(SiblingDomain, "undefined", "returns")
  \/ \E i \in Idx : RunResolves(i, SiblingOutcome, "returns")
  \/ \E i \in Idx : RunRejects(i, SiblingRejection, "returns")
  \/ \E i \in Idx : TimerFires(i, "returns")
  \/ Return
  \/ \E domain \in OneArgs, scannerId \in OneArgs : runScanner(domain, scannerId)
  \/ \E r \in Outcomes : OneRunResolves(r)
  \/ \E err \in Rejections : OneRunRejects(err)
  \/ OneTimerFires

SpecOne == Init /\ [][NextOne]_vars

\* -------------------------------------------------------- the scanners' runs
\* What a fetch gives: a response with a 2xx status and the body parsed from
\* its JSON, a response with another status, or a rejection (the network
\* failed).
Ok(body) == [kind |-> "ok", body |-> body]
NotOk(status) == [kind |-> "status", status |-> status]
NetworkFailure == [kind |-> "network"]

\* The TypeError a failed fetch rejects with.
FetchError == NewError(PlainMessage("Failed to fetch"))

\* How the promise of an async function settles.
Resolved(r) == [settled |-> "resolved", value |-> r]
Rejected(err) == [settled |-> "rejected", reason |-> err]

\* The text i18next.t returns for a key without interpolation.
Text(key) == PlainMessage(Translate(key))

\* i18next.t(key, { ns: 'scanners', ...values })
Interpolated(key, values) == [template |-> Translate(key), values |-> values]

\* Array.prototype.find, given the elements that satisfy the test in their
\* order: the first of them, as a sequence of at most one element.
FindFirst(found) == IF found = <<>> THEN <<>> ELSE << Head(found) >>

\* Array.prototype.flatMap on a sequence of sequences.
RECURSIVE Flatten(_)
Flatten(ss) == IF ss = <<>> THEN <<>> ELSE Head(ss) \o Flatten(Tail(ss))

\* fetchDNS(domain, rrtype): never throws.  A response that is not ok gives a
\* record without data, a failed fetch gives null (here: no record), otherwise
\* the strings of the body's data array.
fetchDNS(domain, rrtype, up) ==
  CASE up.kind = "ok" -> << [type |-> rrtype, data |-> up.body] >>
    [] up.kind = "status" -> << [type |-> rrtype, data |-> <<>>] >>
    [] up.kind = "network" -> <<>>

\* const types = ['A', 'AAAA', 'MX', 'TXT', 'CNAME']
DnsTypes == << "A", "AAAA", "MX", "TXT", "CNAME" >>

\* reservedIPs.some((reserved) => ip.startsWith(reserved)), on the addresses
\* the answers of the model hold.
IsReservedIP(ip) == ip \in {"10.0.0.1", "127.0.0.1", "192.168.1.1"}

\* /^\d+\.\d+\.\d+\.\d+\.?$/.test(parts[1] || parts[0]), on the MX answers of
\* the model.
MxHostIsIP(mx) == mx \in {"10 1.2.3.4", "1.2.3.4."}

\* txt.length > 255, on the TXT answers of the model.
LongerThan255(txt) == txt \in {"v=DKIM1; p=<300 characters>"}

\* dnsScanner.run(domain), given what the five lookups meet upstream.
dnsRun(domain, ups) ==
  LET records == Flatten([t \in DOMAIN DnsTypes |->
                            fetchDNS(domain, DnsTypes[t], ups[t])])
      DataOf(type) ==
        LET r == FindFirst(SelectSeq(records, LAMBDA x : x.type = type))
        IN IF r = <<>> THEN <<>> ELSE r[1].data
      aRecords == DataOf("A")
      aaaaRecords == DataOf("AAAA")
      mxRecords == DataOf("MX")
      cnameRecords == DataOf("CNAME")
      txtRecords == DataOf("TXT")
      Each(s, Test(_), Issue(_)) ==
        LET hit == SelectSeq(s, Test) IN [m \in DOMAIN hit |-> Issue(hit[m])]
      issues ==
        (IF aRecords = <<>> /\ aaaaRecords = <<>> /\ cnameRecords = <<>>
           THEN << Text("dns.issues.noRecords") >> ELSE <<>>)
        \o Each(aRecords, IsReservedIP,
                LAMBDA ip : Interpolated("dns.issues.reservedIP", [ip |-> ip]))
        \o (IF cnameRecords # <<>>
                /\ (aRecords # <<>> \/ aaaaRecords # <<>> \/ mxRecords # <<>>)
              THEN << Text("dns.issues.cnameConflict") >> ELSE <<>>)
        \o (IF Len(cnameRecords) > 1
              THEN << Text("dns.issues.multipleCNAME") >> ELSE <<>>)
        \o (IF Len(aRecords) > 10
              THEN << Interpolated("dns.issues.excessiveA",
                                   [count |-> Len(aRecords)]) >>
              ELSE <<>>)
        \o (IF mxRecords = <<>> THEN << Text("dns.issues.noMX") >> ELSE <<>>)
        \o Each(txtRecords, LongerThan255,
                LAMBDA txt : Text("dns.issues.longTXT"))
        \o Each(mxRecords, MxHostIsIP,
                LAMBDA mx : Interpolated("dns.issues.mxIP", [hostname |-> mx]))
      recordCounts ==
        [m \in DOMAIN records |-> << records[m].type, Len(records[m].data) >>]
      summary ==
        IF records # <<>>
          THEN Interpolated("dns.summary.found", [records |-> recordCounts])
          ELSE Text("dns.summary.none")
  IN Resolved([data |-> [records |-> records], summary |-> summary,
               issues |-> issues])

\* fetchCertificates(host): a response that is not ok is thrown as an Error
\* naming the status, a failed fetch rejects, otherwise the certificates of the
\* body.
fetchCertificates(host, up) ==
  CASE up.kind = "ok" -> Resolved(up.body)
    [] up.kind = "status" ->
         Rejected(NewError([template |-> "Certificates lookup failed (${res.status})",
                            status |-> up.status]))
    [] up.kind = "network" -> Rejected(FetchError)

\* String.prototype.startsWith and endsWith on sequences of characters.
StartsWith(s, prefix) ==
  Len(prefix) <= Len(s) /\ SubSeq(s, 1, Len(prefix)) = prefix

EndsWith(s, suffix) ==
  Len(suffix) <= Len(s) /\ SubSeq(s, Len(s) - Len(suffix) + 1, Len(s)) = suffix

\* The test certificateScanner.run applies to a certificate's common name and
\* to each of its DNS names: n and d are in lower case.
NameMatches(n, d) ==
  \/ n = d
  \/ n = << "*", "." >> \o d
  \/ EndsWith(n, << "." >> \o d)
  \/ StartsWith(n, << "*", "." >>) /\ EndsWith(d, Tail(n))

\* The filter of certificateScanner.run: the certificate's common name or one
\* of its DNS names matches the domain.
Applicable(c, domain) ==
  LET cn == ToLowerCase(IF "commonName" \in DOMAIN c THEN c.commonName ELSE <<>>)
      dnsNames == IF "dnsNames" \in DOMAIN c THEN c.dnsNames ELSE <<>>
      d == ToLowerCase(domain)
  IN \/ NameMatches(cn, d)
     \/ \E m \in DOMAIN dnsNames : NameMatches(ToLowerCase(dnsNames[m]), d)

\* c.issuer?.commonName trimmed, the empty string when there is none.
IssuerOf(c) == IF "issuer" \in DOMAIN c THEN c.issuer ELSE ""

\* certificateScanner.run(domain), given what the lookup meets upstream.  The
\* clock not being modelled, a certificate carries the days until its
\* expiry (daysUntil(c.notAfter)) unless that is null.
certificateRun(domain, up) ==
  LET fetched == fetchCertificates(domain, up)
      certs == fetched.value
      applicable == SelectSeq(certs, LAMBDA c : Applicable(c, domain))
      active == SelectSeq(applicable, LAMBDA c : c.isActive)
      expired == SelectSeq(applicable, LAMBDA c : c.isExpired)
      selfSignedActive ==
        SelectSeq(applicable, LAMBDA c : c.isSelfSigned /\ c.isActive)
      wildcard == SelectSeq(applicable, LAMBDA c : c.isWildcard)
      dated == SelectSeq(active, LAMBDA c : "days" \in DOMAIN c)
      expiring7 == SelectSeq(dated, LAMBDA c : c.days >= 0 /\ c.days <= 7)
      expiring30 == SelectSeq(dated, LAMBDA c : c.days > 7 /\ c.days <= 30)
      Expiring(key, c) ==
        Interpolated(key,
          [commonName |-> IF "commonName" \in DOMAIN c /\ c.commonName # <<>>
                            THEN c.commonName ELSE domain,
           days |-> c.days])
      issuers == {IssuerOf(applicable[m]) : m \in DOMAIN applicable} \ {""}
      Counted(key, n) == Interpolated(key, [count |-> n])
      issues ==
        (IF applicable = <<>>
           THEN << Text("certificates.issues.noCerts") >> ELSE <<>>)
        \o (IF selfSignedActive # <<>>
              THEN << Counted("certificates.issues.selfSigned",
                              Len(selfSignedActive)) >>
              ELSE <<>>)
        \o (IF wildcard # <<>>
              THEN << Counted("certificates.issues.wildcard", Len(wildcard)) >>
              ELSE <<>>)
        \o [m \in DOMAIN expiring7 |->
              Expiring("certificates.issues.expiring7Days", expiring7[m])]
        \o [m \in DOMAIN expiring30 |->
              Expiring("certificates.issues.expiring30Days", expiring30[m])]
        \o (IF Len(active) >= 10
              THEN << Counted("certificates.issues.excessive", Len(active)) >>
              ELSE <<>>)
        \o (IF Cardinality(issuers) >= 3
              THEN << Counted("certificates.issues.manyIssuers",
                              Cardinality(issuers)) >>
              ELSE <<>>)
      summary ==
        IF applicable # <<>>
          THEN << Interpolated("certificates.summary.found",
                               [total |-> Len(applicable)]) >>
               \o (IF active # <<>>
                     THEN << Interpolated("certificates.summary.active",
                                          [active |-> Len(active)]) >>
                     ELSE <<>>)
               \o (IF expired # <<>>
                     THEN << Interpolated("certificates.summary.expired",
                                          [expired |-> Len(expired)]) >>
                     ELSE <<>>)
          ELSE << Text("certificates.summary.noneFound") >>
  IN IF fetched.settled = "rejected"
       THEN fetched
       ELSE Resolved([summary |-> summary, issues |-> issues,
                      data |-> [totalFound |-> Len(applicable),
                                currentlyActive |-> Len(active),
                                expired |-> Len(expired),
                                certificates |-> applicable]])

\* fetchTXT(domain): the data of the TXT record fetchDNS gives, the empty
\* array when it gives null.
fetchTXT(domain, up) ==
  LET rec == fetchDNS(domain, "TXT", up)
  IN IF rec = <<>> THEN <<>> ELSE rec[1].data

\* safeFetchTxt(name): what fetchTXT gives; anything thrown on the way, and
\* anything that is not an array, becomes the empty array.
safeFetchTxt(name, up) == fetchTXT(name, up)

\* txtRecords.some((t) => stripQuotes(t).toLowerCase().includes(tag)), on the
\* TXT answers of the model.
HasTag(txtRecords, tag) ==
  \E m \in DOMAIN txtRecords :
    CASE tag = "v=spf1" -> txtRecords[m] \in {"v=spf1 -all", "V=SPF1 ~all"}
      [] tag = "v=dmarc1" -> txtRecords[m] \in {"v=DMARC1; p=none"}
      [] tag = "v=dkim1" ->
           txtRecords[m] \in {"v=DKIM1; p=key", "v=DKIM1; p=<300 characters>"}

\* flattenTxt(txt): the answers without their quotes, joined.
flattenTxt(txt) == [joined |-> txt]

\* ['default', 'selector1', 'selector2', 's1', 's2']
DefaultSelectors == << "default", "selector1", "selector2", "s1", "s2" >>

\* emailAuthScanner.run(domain), given what its lookups meet upstream (root
\* TXT, _dmarc TXT and one TXT lookup per selector) and the selectors
\* getDkimSelectors(domain) returns.
emailAuthRun(domain, ups) ==
  LET rootTxt == safeFetchTxt(domain, ups.root)
      spfOk == HasTag(rootTxt, "v=spf1")
      dmarcTxt == safeFetchTxt(<< "_dmarc." >> \o domain, ups.dmarc)
      dmarcOk == HasTag(dmarcTxt, "v=dmarc1")
      savedSelectors == ups.saved
      selectors ==
        IF Len(savedSelectors) > 0 THEN savedSelectors ELSE DefaultSelectors
      dkimFound ==
        \E m \in DOMAIN selectors :
          LET dkimTxt ==
                safeFetchTxt(<< selectors[m], "._domainkey." >> \o domain,
                             ups.dkim[m])
          IN dkimTxt # <<>> /\ HasTag(dkimTxt, "v=dkim1")
      issues ==
        (IF ~spfOk THEN << Text("emailAuth.issues.noSPF") >> ELSE <<>>)
        \o (IF ~dmarcOk THEN << Text("emailAuth.issues.noDMARC") >> ELSE <<>>)
        \o (IF ~dkimFound THEN << Text("emailAuth.issues.noDKIM") >> ELSE <<>>)
      YesNo(b) == IF b THEN "yes" ELSE "no"
  IN Resolved([summary |-> [SPF |-> YesNo(spfOk), DMARC |-> YesNo(dmarcOk),
                            DKIM |-> YesNo(dkimFound)],
               issues |-> issues,
               data |-> [spf |-> flattenTxt(rootTxt),
                         dmarc |-> flattenTxt(dmarcTxt),
                         dkimSelectorsTried |-> selectors,
                         dkimFound |-> dkimFound]])

\* domain.split('.')
RECURSIVE Split(_)
Split(s) ==
  LET dots == {k \in DOMAIN s : s[k] = "."}
  IN IF dots = {}
       THEN << s >>
       ELSE LET k == CHOOSE d \in dots : \A e \in dots : d <= e
            IN << SubSeq(s, 1, k - 1) >> \o Split(SubSeq(s, k + 1, Len(s)))

\* What the loop over the RDAP servers keeps of a query that gives no data.
QueryError(up) ==
  CASE up.kind = "status" /\ up.status = 404 -> PlainMessage("Domain not found")
    [] up.kind = "status" /\ up.status # 404 ->
         [template |-> "Server returned ${response.status}", status |-> up.status]
    [] up.kind = "network" -> ErrorText(FetchError)

\* problemStatuses.some((ps) => s.toLowerCase().includes(ps.toLowerCase())),
\* on the statuses of the model.
IsProblemStatus(s) ==
  s \in {"clientHold", "serverHold", "redemptionPeriod", "pendingDelete"}

\* rdapScanner.run(domain), given what the bootstrap fetch and the query of
\* each server meet upstream.  Whatever is thrown inside the try block is
\* caught and returned as a result.  The clock not being modelled, the
\* answer carries the days until its expiration event (daysUntilExpiration)
\* when it has one; registration date and registrar are left out of data.
rdapRun(domain, ups) ==
  LET parts == Split(domain)
      tld == parts[Len(parts)]
      Caught(err) ==
        LET errorMessage == ErrorText(err)
        IN [data |-> [error |-> errorMessage],
            summary |-> Text("rdap.summary.failed"),
            issues |-> << Interpolated("rdap.issues.notFound",
                                       [error |-> errorMessage]) >>]
      bootstrapData == ups.bootstrap.body
      service ==
        IF "services" \in DOMAIN bootstrapData
          THEN FindFirst(SelectSeq(bootstrapData.services,
                                   LAMBDA x : ToLowerCase(tld) \in x.tlds))
          ELSE <<>>
      rdapServers == IF service = <<>> THEN <<>> ELSE service[1].servers
      answering == {m \in DOMAIN rdapServers : ups.queries[m].kind = "ok"}
      lastError == QueryError(ups.queries[Len(rdapServers)])
      data == ups.queries[CHOOSE m \in answering :
                            \A n \in answering : m <= n].body
      statuses == IF "status" \in DOMAIN data THEN data.status ELSE <<>>
      ldhName == IF "ldhName" \in DOMAIN data THEN data.ldhName ELSE domain
      problemStatusList == SelectSeq(statuses, IsProblemStatus)
      hasExpiration == "daysUntilExpiration" \in DOMAIN data
      days == data.daysUntilExpiration
      Days(key, n) == << Interpolated(key, [days |-> n]) >>
      hasSecureDNS == "secureDNS" \in DOMAIN data
      nameservers ==
        IF "nameservers" \in DOMAIN data THEN data.nameservers ELSE <<>>
      issues ==
        (IF problemStatusList # <<>>
           THEN << Interpolated("rdap.issues.problemStatus",
                                [statuses |-> problemStatusList]) >>
           ELSE <<>>)
        \o (IF hasExpiration /\ days < 0
              THEN Days("rdap.issues.expired", -days)
              ELSE IF hasExpiration /\ days <= 30
                THEN Days("rdap.issues.expiringSoon", days)
                ELSE <<>>)
        \o (IF nameservers = <<>>
              THEN << PlainMessage("No nameservers found - domain cannot resolve") >>
              ELSE <<>>)
      warnings ==
        (IF hasExpiration /\ days > 30 /\ days <= 60
           THEN Days("rdap.issues.expiringWarning", days) ELSE <<>>)
        \o (IF hasSecureDNS /\ data.secureDNS.delegationSigned = FALSE
              THEN << Text("rdap.issues.noDNSSEC") >> ELSE <<>>)
        \o (IF Len(nameservers) = 1
              THEN << PlainMessage("Only one nameserver configured - add redundant nameservers for reliability") >>
              ELSE <<>>)
      activeStatus ==
        IF statuses # <<>>
          THEN IF \E m \in DOMAIN statuses : statuses[m] = "active"
                 THEN "active" ELSE statuses[1]
          ELSE "unknown"
      allIssues == issues \o warnings
      analysed ==
        [summary |-> Interpolated("rdap.summary.found",
                                  [domain |-> ldhName, status |-> activeStatus]),
         data |-> [ldhName |-> ldhName, status |-> statuses,
                   nameservers |-> nameservers,
                   dnssecEnabled |->
                     hasSecureDNS /\ data.secureDNS.delegationSigned]]
  IN Resolved(
       IF Len(parts) < 2
         THEN [data |-> [error |-> PlainMessage("Invalid domain format")],
               summary |-> Text("rdap.summary.invalid"),
               issues |-> << Text("rdap.issues.invalidDomain") >>]
       ELSE IF ups.bootstrap.kind = "network" THEN Caught(FetchError)
       ELSE IF ups.bootstrap.kind = "status"
         THEN Caught(NewError(
                [template |-> "Failed to fetch RDAP bootstrap data: ${bootstrapResponse.status}",
                 status |-> ups.bootstrap.status]))
       ELSE IF rdapServers = <<>>
         THEN [data |-> [error |-> [template |-> "No RDAP server found for .${tld} TLD",
                                    tld |-> tld],
                         tld |-> tld],
               summary |-> Text("rdap.summary.unavailable"),
               issues |-> << Interpolated("rdap.issues.noRDAPServer",
                                          [tld |-> tld]),
                             Text("rdap.issues.legacyWhois") >>]
       ELSE IF answering = {}
         THEN [data |-> [error |-> lastError, rdapServers |-> rdapServers],
               summary |-> Text("rdap.summary.failed"),
               issues |-> << Interpolated("rdap.issues.notFound",
                                          [error |-> lastError]),
                             Text("rdap.issues.notRegistered") >>]
       ELSE IF allIssues # <<>>
         THEN Assign(analysed, [issues |-> allIssues])
         ELSE analysed)

\* ---------------------------------------------------- interpretScannerResult
\* Variant: the generic text is used whatever error was captured.
ErrorMessageOf_Generic(scanner) == Text("common.errors.scannerFailed")

\* scanner.error || i18next.t('common.errors.scannerFailed', ...): the captured
\* text unless it is undefined or the empty string.
ErrorMessageOf(scanner) ==
  IF "error" \in DOMAIN scanner /\ scanner.error # PlainMessage("")
    THEN scanner.error
    ELSE Text("common.errors.scannerFailed")

\* scanner.issues?.length || 0
IssueCount(scanner) ==
  IF "issues" \in DOMAIN scanner THEN Len(scanner.issues) ELSE 0

\* interpretDnsResult(scanner, issueCount)
interpretDnsResult(scanner, issueCount) ==
  IF issueCount = 0
    THEN [severity |-> "success",
          message |-> Text("dns.interpretation.success.message"),
          recommendation |-> Text("dns.interpretation.success.recommendation")]
    ELSE IF issueCount <= 2
      THEN [severity |-> "warning",
            message |-> Text("dns.interpretation.warning.message"),
            recommendation |-> Text("dns.interpretation.warning.recommendation")]
      ELSE [severity |-> "critical",
            message |-> Text("dns.interpretation.critical.message"),
            recommendation |-> Text("dns.interpretation.critical.recommendation")]

\* interpretEmailAuthResult(scanner, issueCount).  An issue names SPF or DMARC
\* (i.includes('DMARC') || i.includes('SPF')) when it is one of the two texts
\* the run pushes for them.
interpretEmailAuthResult(scanner, issueCount) ==
  IF scanner.status = "error"
    THEN [severity |-> "error",
          message |-> ErrorMessageOf(scanner),
          recommendation |-> Text("common.errors.retryMessage")]
    ELSE IF issueCount = 0
      THEN [severity |-> "success",
            message |-> Text("emailAuth.interpretation.ok"),
            recommendation |-> Text("emailAuth.interpretation.none")]
      ELSE LET issues == IF "issues" \in DOMAIN scanner THEN scanner.issues ELSE <<>>
               hasCritical ==
                 \E m \in DOMAIN issues :
                   issues[m] \in {Text("emailAuth.issues.noSPF"),
                                  Text("emailAuth.issues.noDMARC")}
           IN [severity |-> IF hasCritical THEN "warning" ELSE "info",
               message |-> Interpolated("emailAuth.interpretation.issues",
                                        [count |-> issueCount]),
               recommendation |-> Text("emailAuth.interpretation.recommendation")]

\* interpretCertificateResult(scanner, issueCount).  A result that is not
\* failed carries the object its run returned, so dataObj is scanner.data; a
\* count that is absent from it is not a finite number.
interpretCertificateResult(scanner, issueCount) ==
  IF scanner.status = "error"
    THEN [severity |-> "error",
          message |-> ErrorMessageOf(scanner),
          recommendation |-> Text("common.errors.retryMessage")]
    ELSE LET dataObj == scanner.data
             totalFoundIsZero ==
               "totalFound" \in DOMAIN dataObj /\ dataObj.totalFound = 0
             activeCount ==
               IF "currentlyActive" \in DOMAIN dataObj
                 THEN dataObj.currentlyActive ELSE 0
             many == activeCount >= 10
         IN IF totalFoundIsZero
              THEN [severity |-> "info",
                    message |-> Text("certificates.interpretation.noCerts.message"),
                    recommendation |->
                      Text("certificates.interpretation.noCerts.recommendation")]
              ELSE IF issueCount > 0
                THEN [severity |-> "warning",
                      message |->
                        Interpolated("certificates.interpretation.issuesDetected.message",
                                     [activeCertCount |-> activeCount,
                                      issueCount |-> issueCount]),
                      recommendation |->
                        Text("certificates.interpretation.issuesDetected.recommendation")]
                ELSE [severity |-> "success",
                      message |->
                        Interpolated("certificates.interpretation.validCerts.message",
                                     [count |-> activeCount]),
                      recommendation |->
                        IF many
                          THEN Text("certificates.interpretation.validCerts.recommendationMany")
                          ELSE Text("certificates.interpretation.validCerts.recommendationNormal")]

\* The value of a call of one of the other scanner-specific interpretation
\* functions, which is whatever that function returns for these arguments.
Delegated(function, arguments) ==
  [returnedBy |-> function, arguments |-> arguments]

\* Variant: the default branch reports success whatever the issue count.
DefaultInterpretation_AlwaysSuccess(issueCount) ==
  [severity |-> "success",
   message |-> Text("common.interpretation.checkCompleted"),
   recommendation |-> Text("common.interpretation.noIssuesDetected")]

\* The default branch of the switch.
DefaultInterpretation(issueCount) ==
  [severity |-> IF issueCount = 0 THEN "success" ELSE "warning",
   message |-> IF issueCount = 0
                 THEN Text("common.interpretation.checkCompleted")
                 ELSE [template |-> Translate("common.interpretation.issuesFound"),
                       count |-> issueCount],
   recommendation |-> IF issueCount = 0
                        THEN Text("common.interpretation.noIssuesDetected")
                        ELSE Text("common.interpretation.reviewIssues")]

interpretScannerResult(scanner) ==
  IF scanner.status = "error"
    THEN [severity |-> "error",
          message |-> ErrorMessageOf(scanner),
          recommendation |-> Text("common.errors.retryMessage")]
    ELSE LET issueCount == IssueCount(scanner)
         IN CASE scanner.id = "dns" -> interpretDnsResult(scanner, issueCount)
              [] scanner.id = "emailAuth" ->
                   interpretEmailAuthResult(scanner, issueCount)
              [] scanner.id = "certificates" ->
                   interpretCertificateResult(scanner, issueCount)
              [] scanner.id = "rdap" ->
                   Delegated("interpretRdapResult", << scanner, issueCount >>)
              [] scanner.id = "sslLabs" ->
                   Delegated("interpretSslLabsResult", << scanner >>)
              [] scanner.id = "securityHeaders" ->
                   Delegated("interpretSecurityHeadersResult", << scanner >>)
              [] OTHER -> DefaultInterpretation(issueCount)

\* Results handed to interpretScannerResult.  Failed results: of every
\* scanner and of an unknown one, with the error text absent, empty, plain or
\* that of a timeout, and with or without issues.
SubjectIds ==
  { "dns", "emailAuth", "certificates", "rdap", "sslLabs", "securityHeaders",
    "unknown" }

SubjectErrors ==
  { PlainMessage(""), PlainMessage("Test error"),
    TimeoutMessage("DNS Records", 5000) }

SubjectIssues == { <<>>, <<"issue 1">>, <<"a", "b", "c">> }

WithIssues(result) ==
  {result} \cup {Assign(result, [issues |-> is]) : is \in SubjectIssues}

ErrorSubjects ==
  UNION { WithIssues(r) :
            r \in {[id |-> id, label |-> "label", status |-> "error",
                    startedAt |-> NowISO, finishedAt |-> NowISO] :
                      id \in SubjectIds}
                   \cup {[id |-> id, label |-> "label", status |-> "error",
                          startedAt |-> NowISO, finishedAt |-> NowISO,
                          error |-> e] :
                            id \in SubjectIds, e \in SubjectErrors} }

\* Results that are not failed, of the dns scanner and of two ids the switch
\* does not name: complete or still running, with or without issues.
OtherSubjects ==
  UNION { WithIssues(r) :
            r \in {[id |-> id, label |-> "label", status |-> st,
                    startedAt |-> NowISO] :
                      id \in {"dns", "unknown", "whois"},
                      st \in {"complete", "running"}} }

Subjects == ErrorSubjects \cup OtherSubjects

\* A caller holds a result and has not interpreted it yet.
InitInterpret ==
  /\ Loaded
  /\ cache = {}
  /\ subject \in {<< x >> : x \in Subjects}
  /\ interpretation = <<>>

\* interpretScannerResult(subject): the argument is only read.
Interpret ==
  /\ subject # <<>>
  /\ interpretation = <<>>
  /\ interpretation' = << interpretScannerResult(subject[1]) >>
  /\ UNCHANGED << DEFAULT_SCANNER_TIMEOUT, batchVars, thrown, one, subject,
                  probe, appVars, concurrentVars >>

NextInterpret == Interpret

SpecInterpret == InitInterpret /\ [][NextInterpret]_vars

\* ------------------------------------------------------- one scanner's run
\* The domains a run is given: with a dot and without.
ProbeDomains == { << "a", ".", "b" >>, << "a", "b" >> }

\* What the five lookups of the dns scanner meet.
DnsUpstreams ==
  { << a, Ok(<<>>), mx, txt, cname >> :
      a \in {Ok(<<>>), Ok(<< "1.2.3.4" >>), Ok(<< "10.0.0.1" >>), NotOk(500),
              NetworkFailure},
      mx \in {Ok(<<>>), Ok(<< "10 mail.a.b." >>), Ok(<< "10 1.2.3.4" >>),
               NetworkFailure},
      txt \in {Ok(<<>>), Ok(<< "v=DKIM1; p=<300 characters>" >>)},
      cname \in {Ok(<<>>), Ok(<< "c.a.b.", "d.a.b." >>)} }
  \cup { [t \in DOMAIN DnsTypes |-> up] : up \in {NotOk(500), NetworkFailure} }

\* What the lookups of the emailAuth scanner meet, and the saved selectors.
EmailAuthUpstreams ==
  { [root |-> root, dmarc |-> dmarc, dkim |-> dkim, saved |-> saved] :
      root \in {Ok(<<>>), Ok(<< "v=spf1 -all" >>), NotOk(500), NetworkFailure},
      dmarc \in {Ok(<<>>), Ok(<< "v=DMARC1; p=none" >>), NetworkFailure},
      dkim \in {[m \in 1..5 |-> Ok(<<>>)], [m \in 1..5 |-> NetworkFailure],
                [m \in 1..5 |-> IF m = 3 THEN Ok(<< "v=DKIM1; p=key" >>)
                                         ELSE NotOk(500)]},
      saved \in {<<>>, << "mail" >>} }

\* Certificates an answer may hold.
Certificate(commonName, days, selfSigned, issuer) ==
  [commonName |-> commonName, isActive |-> TRUE, isExpired |-> FALSE,
   isSelfSigned |-> selfSigned, isWildcard |-> commonName[1] = "*",
   days |-> days, issuer |-> issuer]

\* What the lookup of the certificates scanner meets.
CertificateUpstreams ==
  { NotOk(500), NetworkFailure, Ok(<<>>),
    Ok(<< Certificate(<< "c", ".", "d" >>, 90, FALSE, "CA 1") >>),
    Ok(<< Certificate(<< "A", ".", "b" >>, 90, FALSE, "CA 1") >>),
    Ok(<< Certificate(<< "*", ".", "a", ".", "b" >>, 5, TRUE, "CA 1"),
          Certificate(<< "w", ".", "a", ".", "b" >>, 20, FALSE, "CA 2"),
          [dnsNames |-> << << "a", ".", "b" >> >>, isActive |-> FALSE,
           isExpired |-> TRUE, isSelfSigned |-> FALSE, isWildcard |-> FALSE,
           issuer |-> "CA 3"] >>) }

\* Answers of an RDAP server.
RdapAnswers ==
  { [status |-> << "active" >>, daysUntilExpiration |-> 200,
     secureDNS |-> [delegationSigned |-> TRUE],
     nameservers |-> << "ns1", "ns2" >>],
    [status |-> << "clientHold" >>, daysUntilExpiration |-> -3,
     nameservers |-> <<>>],
    [ldhName |-> "A.B", daysUntilExpiration |-> 45,
     secureDNS |-> [delegationSigned |-> FALSE], nameservers |-> << "ns1" >>] }

\* What the bootstrap fetch and the queries of the rdap scanner meet.
RdapUpstreams ==
  { [bootstrap |-> b, queries |-> q] :
      b \in {NetworkFailure, NotOk(503), Ok([publication |-> "none"]),
             Ok([services |-> << [tlds |-> {<< "c" >>}, servers |-> << "s0" >>],
                                 [tlds |-> {<< "b" >>},
                                  servers |-> << "s1", "s2" >>] >>])},
      q \in {<< NotOk(404), NotOk(404) >>, << NotOk(404), NotOk(500) >>,
             << NotOk(500), NetworkFailure >>}
            \cup {<< NetworkFailure, Ok(answer) >> : answer \in RdapAnswers} }

\* The upstream outcomes scanner k can be run against.
UpstreamsOf(k) ==
  CASE AllScanners[k].id = "dns" -> DnsUpstreams
    [] AllScanners[k].id = "emailAuth" -> EmailAuthUpstreams
    [] AllScanners[k].id = "certificates" -> CertificateUpstreams
    [] AllScanners[k].id = "rdap" -> RdapUpstreams

\* The scanners whose run is modelled.
Probes == 1..4

\* scanner.run(domain) of scanner k.
RunOf(k, domain, ups) ==
  CASE AllScanners[k].id = "dns" -> dnsRun(domain, ups)
    [] AllScanners[k].id = "emailAuth" -> emailAuthRun(domain, ups)
    [] AllScanners[k].id = "certificates" -> certificateRun(domain, ups)
    [] AllScanners[k].id = "rdap" -> rdapRun(domain, ups)

\* Scanner k is run for a domain and its promise settles.
ProbeRuns(k, domain, ups) ==
  /\ probe.phase = "idle"
  /\ probe' = [phase |-> "settled", scanner |-> AllScanners[k],
               domain |-> domain, upstream |-> ups,
               outcome |-> RunOf(k, domain, ups)]
  /\ UNCHANGED << DEFAULT_SCANNER_TIMEOUT, batchVars, thrown, one, subject,
                  interpretation, appVars, concurrentVars >>

\* What runAllScanners records for a scanner whose run settled this way: the
\* assignments of its .then callback, or those of its .catch callback.
Recorded(scanner, outcome) ==
  IF outcome.settled = "resolved"
    THEN Completed(Base(scanner), scanner, outcome.value)
    ELSE Failed(Base(scanner), outcome.reason)

\* The settled run is recorded, and the recorded result is what a caller
\* holds.
ProbeRecorded ==
  /\ probe.phase = "settled"
  /\ subject = <<>>
  /\ subject' = << Recorded(probe.scanner, probe.outcome) >>
  /\ UNCHANGED << DEFAULT_SCANNER_TIMEOUT, batchVars, thrown, one, probe,
                  interpretation, appVars, concurrentVars >>

NextProbe ==
  \/ \E k \in Probes, d \in ProbeDomains :
       \E ups \in UpstreamsOf(k) : ProbeRuns(k, d, ups)
  \/ ProbeRecorded
  \/ Interpret

SpecProbe == Init /\ [][NextProbe]_vars

\* ---------------------------------------------------------------- runScanners
\* scannerCache keeps one aggregate per normalised domain.
CacheKey(domain) == ToLowerCase(Trim(domain))

\* scannerCache.get(domain): <<>> or <<the aggregate kept for the domain>>.
CacheGet(domain) ==
  IF \E e \in cache : e.key = CacheKey(domain)
    THEN << (CHOOSE e \in cache : e.key = CacheKey(domain)).value >>
    ELSE <<>>

\* scannerCache.set(domain, agg): the cache with the aggregate stored or
\* overwritten for the domain.
CacheSet(domain, agg) ==
  {e \in cache : e.key # CacheKey(domain)}
    \cup {[key |-> CacheKey(domain), value |-> agg]}

\* What scannerCache.checkRateLimit() may report.
RateChecks ==
  { [allowed |-> TRUE],
    [allowed |-> FALSE, retryAfter |-> 30],
    [allowed |-> FALSE, retryAfter |-> 1] }

\* normalizeAggregate(agg) for an aggregate that is there: every scanner's
\* issues and the aggregate's issues are arrays.
normalizeAggregate(agg) ==
  Assign(agg,
         [scanners |-> IF "scanners" \in DOMAIN agg
                         THEN NormalizedPartial(agg.scanners) ELSE <<>>,
          issues |-> IF "issues" \in DOMAIN agg THEN agg.issues ELSE <<>>])

\* `Rate limit exceeded. Please wait ${rateCheck.retryAfter} seconds before
\* scanning again.`
RateLimitMessage(retryAfter) ==
  [template |->
     "Rate limit exceeded. Please wait ${retryAfter} seconds before scanning again.",
   retryAfter |-> retryAfter]

\* Variant: the report of the rate limiter is not looked at.
RateLimited_Never(rateCheck) == FALSE

\* !rateCheck.allowed
RateLimited(rateCheck) == ~rateCheck.allowed

\* persist(key, value): localStorage.setItem, whose failure is ignored.
PersistOutcomes == {"stored", "ignored"}

\* The synchronous part of runScanners(domain).  A cached aggregate is shown
\* and the call is over; without one the rate limiter is asked, and a refusal
\* is thrown; otherwise the progress list is emptied and runAllScanners is
\* called, which runs up to its await.  The model has one batch, so a call
\* that needs one is made only while none has been started.
runScanners(domain, rateCheck) ==
  /\ scan.phase # "awaiting"
  /\ IF CacheGet(domain) # <<>>
       THEN /\ domainScanAggregate' = << normalizeAggregate(CacheGet(domain)[1]) >>
            /\ scannerProgress' = normalizeAggregate(CacheGet(domain)[1]).scanners
            /\ scan' = [phase |-> "resolved", domain |-> domain,
                        cached |-> CacheGet(domain)]
            /\ UNCHANGED << DEFAULT_SCANNER_TIMEOUT, phase, trimmed, onProgress,
                            results, timeoutMs, run, timer, race, chain,
                            callCount, firstCall, lastCall, aggregate, thrown >>
       ELSE IF RateLimited(rateCheck)
         THEN /\ scan' = [phase |-> "rejected", domain |-> domain,
                          cached |-> <<>>, rateCheck |-> rateCheck,
                          reason |-> NewError(RateLimitMessage(rateCheck.retryAfter))]
              /\ UNCHANGED << DEFAULT_SCANNER_TIMEOUT, batchVars, thrown,
                              domainScanAggregate >>
         ELSE /\ runAllScanners(domain, "setScannerProgress", "returns")
              /\ scan' = [phase |-> "awaiting", domain |-> domain,
                          cached |-> <<>>, rateCheck |-> rateCheck]
              /\ UNCHANGED domainScanAggregate
  /\ UNCHANGED << storedAggregate, cache, one, interpretVars, concurrentVars >>

\* runScanners after its await: the aggregate is normalised, shown, persisted
\* and cached.
runScannersResumes(persisted) ==
  /\ scan.phase = "awaiting"
  /\ phase = "returned"
  /\ LET agg == normalizeAggregate(aggregate[1])
     IN /\ domainScanAggregate' = << agg >>
        /\ storedAggregate' = IF persisted = "stored" THEN << agg >>
                                                     ELSE storedAggregate
        /\ cache' = CacheSet(scan.domain, agg)
  /\ scan' = [scan EXCEPT !.phase = "resolved"]
  /\ UNCHANGED << DEFAULT_SCANNER_TIMEOUT, batchVars, thrown, one,
                  interpretVars, concurrentVars >>

\* An aggregate kept from an earlier scan of the domain 'ab'.
EarlierAggregate ==
  [domain |-> <<"a", "b">>, timestamp |-> NowISO,
   scanners |-> [i \in Idx |->
                   Assign(Base(SCANNERS[i]),
                          [status |-> "complete", summary |-> "ok",
                           finishedAt |-> NowISO])],
   issues |-> <<>>]

\* The provider is mounted; the cache is empty or holds an earlier aggregate.
InitGate ==
  /\ Loaded
  /\ cache \in { {}, {[key |-> <<"a", "b">>, value |-> EarlierAggregate]} }
  /\ subject = <<>>
  /\ interpretation = <<>>

\* The runScanners calls of the provider and the batch they start.
NextGate ==
  \/ \E d \in Domains \cup {<<"b">>}, rc \in RateChecks : runScanners(d, rc)
  \/ \E i \in Idx, r \in Outcomes : RunResolves(i, r, "returns")
  \/ \E i \in Idx, err \in Rejections : RunRejects(i, err, "returns")
  \/ \E i \in Idx : TimerFires(i, "returns")
  \/ Return
  \/ \E p \in PersistOutcomes : runScannersResumes(p)

SpecGate == InitGate /\ [][NextGate]_vars

\* ------------------------------------------------ a second runAllScanners call
\* Every call of runAllScanners has its own trimmed, results and bases, and
\* its own runs, timers and reactions; the call made while another one is
\* under way is kept in the record second.  Its callback is none or the
\* provider's, which does not throw, so each reaction settles its promise in
\* the step that runs it.
besideSecond ==
  << DEFAULT_SCANNER_TIMEOUT, phase, trimmed, onProgress, results, timeoutMs,
     run, timer, race, chain, callCount, firstCall, lastCall, aggregate,
     thrown, one, interpretVars, appVars, secondScan >>

\* onProgress?.([...results]) of the second call, made with its results res.
SecondNotify(cb, res) ==
  scannerProgress' = IF cb = "setScannerProgress"
                       THEN NormalizedPartial(res)
                       ELSE scannerProgress

\* The second call up to its await.
Launched(d, cb) ==
  [phase |-> "awaiting",
   trimmed |-> ToLowerCase(Trim(d)),
   onProgress |-> cb,
   results |-> InitialResults,
   timeoutMs |-> [i \in Idx |-> TimeoutOf(SCANNERS[i], DEFAULT_SCANNER_TIMEOUT)],
   run |-> [i \in Idx |-> "pending"],
   timer |-> [i \in Idx |-> "armed"],
   race |-> [i \in Idx |-> [state |-> "pending"]]]

SecondStarted == second.phase # "idle"

\* The synchronous part of the second call.
SecondStart(d, cb) ==
  /\ ~SecondStarted
  /\ second' = Launched(d, cb)
  /\ SecondNotify(cb, second'.results)
  /\ UNCHANGED besideSecond

\* Variant: the bases are shared by the calls, so the .then callback of the
\* second call also records the completion in the results of the first.
SecondRunResolves_SharedBases(i, r) ==
  /\ SecondStarted
  /\ second.run[i] = "pending"
  /\ second.race[i].state = "pending"
  /\ second' = [second EXCEPT
                  !.run[i] = "settled",
                  !.race[i] = [state |-> "fulfilled", value |-> r],
                  !.results[i] = Completed(@, SCANNERS[i], r)]
  /\ results' = IF Started
                  THEN [results EXCEPT ![i] = Completed(@, SCANNERS[i], r)]
                  ELSE results
  /\ SecondNotify(second.onProgress, second'.results)
  /\ UNCHANGED << DEFAULT_SCANNER_TIMEOUT, phase, trimmed, onProgress,
                  timeoutMs, run, timer, race, chain, callCount, firstCall,
                  lastCall, aggregate, thrown, one, interpretVars, appVars,
                  secondScan >>

\* A run of the second call resolves with r: if it wins its race, the .then
\* callback records the completion in the base of the second call and
\* notifies.
SecondRunResolves(i, r) ==
  /\ SecondStarted
  /\ second.run[i] = "pending"
  /\ IF second.race[i].state = "pending"
       THEN /\ second' = [second EXCEPT
                            !.run[i] = "settled",
                            !.race[i] = [state |-> "fulfilled", value |-> r],
                            !.results[i] = Completed(@, SCANNERS[i], r)]
            /\ SecondNotify(second.onProgress, second'.results)
       ELSE /\ second' = [second EXCEPT !.run[i] = "settled"]
            /\ UNCHANGED scannerProgress
  /\ UNCHANGED besideSecond

\* A run of the second call rejects with err: if it wins its race, the .catch
\* callback records the error and notifies.
SecondRunRejects(i, err) ==
  /\ SecondStarted
  /\ second.run[i] = "pending"
  /\ IF second.race[i].state = "pending"
       THEN /\ second' = [second EXCEPT
                            !.run[i] = "settled",
                            !.race[i] = [state |-> "rejected", reason |-> err,
                                         by |-> "run"],
                            !.results[i] = Failed(@, err)]
            /\ SecondNotify(second.onProgress, second'.results)
       ELSE /\ second' = [second EXCEPT !.run[i] = "settled"]
            /\ UNCHANGED scannerProgress
  /\ UNCHANGED besideSecond

\* A timer of the second call expires, the timers with a shorter delay first.
SecondTimerFires(i) ==
  /\ SecondStarted
  /\ second.timer[i] = "armed"
  /\ \A j \in Idx :
       second.timeoutMs[j] < second.timeoutMs[i] => second.timer[j] = "fired"
  /\ IF second.race[i].state = "pending"
       THEN LET err == TimeoutError(second.timeoutMs[i], SCANNERS[i].label)
            IN /\ second' = [second EXCEPT
                               !.timer[i] = "fired",
                               !.race[i] = [state |-> "rejected", reason |-> err,
                                            by |-> "timer"],
                               !.results[i] = Failed(@, err)]
               /\ SecondNotify(second.onProgress, second'.results)
       ELSE /\ second' = [second EXCEPT !.timer[i] = "fired"]
            /\ UNCHANGED scannerProgress
  /\ UNCHANGED besideSecond

\* The second call resolves with its aggregate once all its scanner promises
\* have settled.
SecondReturn ==
  /\ second.phase = "awaiting"
  /\ \A i \in Idx : second.race[i].state # "pending"
  /\ second' = Assign(second,
                      [phase |-> "returned",
                       aggregate |-> Aggregate(second.trimmed, second.results)])
  /\ UNCHANGED << besideSecond, scannerProgress >>

\* What the scanners of the second call and of a runScanner call do.
OtherDomains == { <<"a", "b">>, <<"b">> }

OtherOutcome == [summary |-> "found", issues |-> <<"b", "c">>, data |-> "payload"]

OtherRejection == [isError |-> FALSE, value |-> "boom"]

\* The race of scanner i of the first call, of scanner i of the second call
\* and of the runScanner call is still open.
Racing(i) == Started /\ race[i].state = "pending"

SecondRacing(i) == SecondStarted /\ second.race[i].state = "pending"

OneRacing == OneStarted /\ one.race.state = "pending"

\* Two runAllScanners calls and a runScanner call under way at the same time,
\* for the same or for different domains; each race is settled once.
NextTwo ==
  \/ Start(SiblingDomain, "undefined", "returns")
  \/ \E i \in Idx : Racing(i) /\ RunResolves(i, SiblingOutcome, "returns")
  \/ \E i \in Idx : Racing(i) /\ RunRejects(i, SiblingRejection, "returns")
  \/ \E i \in Idx : Racing(i) /\ TimerFires(i, "returns")
  \/ Return
  \/ \E d \in OtherDomains : Started /\ SecondStart(d, "undefined")
  \/ \E i \in Idx : SecondRacing(i) /\ SecondRunResolves(i, OtherOutcome)
  \/ \E i \in Idx : SecondRacing(i) /\ SecondRunRejects(i, OtherRejection)
  \/ \E i \in Idx : SecondRacing(i) /\ SecondTimerFires(i)
  \/ SecondReturn
  \/ runScanner(SiblingDomain, IdString("dns"))
  \/ OneRacing /\ OneRunResolves(OtherOutcome)
  \/ OneRacing /\ OneRunRejects(SiblingRejection)
  \/ OneRacing /\ OneTimerFires

SpecTwo == Init /\ [][NextTwo]_vars

\* --------------------------------------------------- a second runScanners call
\* What a runScanners call of the provider does not touch besides the state
\* of the other calls.
besideProvider == << DEFAULT_SCANNER_TIMEOUT, thrown, one, interpretVars >>

firstBatch ==
  << phase, trimmed, onProgress, results, timeoutMs, run, timer, race, chain,
     callCount, firstCall, lastCall, aggregate >>

\* The synchronous part of a runScanners(domain) call made while the first
\* call is suspended at its await and its batch is under way: the same
\* statements, with locals of its own and the same provider state, storage
\* and cache.
SecondRunScanners(domain, rateCheck) ==
  /\ scan.phase = "awaiting"
  /\ phase = "awaiting"
  /\ ~AllSettled
  /\ secondScan.phase = "idle"
  /\ IF CacheGet(domain) # <<>>
       THEN /\ domainScanAggregate' = << normalizeAggregate(CacheGet(domain)[1]) >>
            /\ scannerProgress' = normalizeAggregate(CacheGet(domain)[1]).scanners
            /\ secondScan' = [phase |-> "resolved", domain |-> domain,
                              cached |-> CacheGet(domain)]
            /\ UNCHANGED second
       ELSE IF RateLimited(rateCheck)
         THEN /\ secondScan' = [phase |-> "rejected", domain |-> domain,
                                cached |-> <<>>, rateCheck |-> rateCheck,
                                reason |-> NewError(RateLimitMessage(rateCheck.retryAfter))]
              /\ UNCHANGED << second, scannerProgress, domainScanAggregate >>
         ELSE /\ second' = Launched(domain, "setScannerProgress")
              /\ SecondNotify("setScannerProgress", second'.results)
              /\ secondScan' = [phase |-> "awaiting", domain |-> domain,
                                cached |-> <<>>, rateCheck |-> rateCheck]
              /\ UNCHANGED domainScanAggregate
  /\ UNCHANGED << besideProvider, firstBatch, scan, storedAggregate, cache >>

\* runScanners of the second call after its await.
SecondResumes(persisted) ==
  /\ secondScan.phase = "awaiting"
  /\ second.phase = "returned"
  /\ LET agg == normalizeAggregate(second.aggregate)
     IN /\ domainScanAggregate' = << agg >>
        /\ storedAggregate' = IF persisted = "stored" THEN << agg >>
                                                     ELSE storedAggregate
        /\ cache' = CacheSet(secondScan.domain, agg)
  /\ secondScan' = Assign(secondScan,
                          [phase |-> "resolved", persisted |-> persisted])
  /\ UNCHANGED << besideProvider, firstBatch, scannerProgress, scan, second >>

\* Two runScanners calls that overlap: the second is made while the first is
\* suspended at its await; the rate limiter allows or refuses it.
NextOverlap ==
  \/ \E d \in OtherDomains : scan.phase = "idle" /\ runScanners(d, [allowed |-> TRUE])
  \/ \E i \in Idx : RunResolves(i, SiblingOutcome, "returns")
  \/ \E i \in Idx : RunRejects(i, SiblingRejection, "returns")
  \/ Return
  \/ \E p \in PersistOutcomes : runScannersResumes(p)
  \/ \E d \in Domains \cup OtherDomains, rc \in RateChecks : SecondRunScanners(d, rc)
  \/ \E i \in Idx : SecondRunResolves(i, OtherOutcome)
  \/ \E i \in Idx : SecondRunRejects(i, OtherRejection)
  \/ SecondReturn
  \/ \E p \in PersistOutcomes : SecondResumes(p)

SpecOverlap == InitGate /\ [][NextOverlap]_vars

\* ================================================================== claims
Returned == phase = "returned"

\* The aggregate a returned call resolved with.
Agg == aggregate[1]

\* How the race of scanner i was decided.
RunResolvedFirst(i) == race[i].state = "fulfilled"
RunRejectedFirst(i) == race[i].state = "rejected" /\ race[i].by = "run"
TimerFiredFirst(i) == race[i].state = "rejected" /\ race[i].by = "timer"

\* Neither the run of scanner i nor its timer has settled its race yet.
Unsettled(i) == race[i].state = "pending"

Terminal(status) == status \in {"complete", "error"}

\* ---------------------------------------------------------------------- C1
\* C1 (completeness): the aggregate runAllScanners resolves with holds exactly
\* one result per registered scanner, so its scanners list is as long as the
\* registry, whatever the scanners' outcomes were.
C1_Completeness ==
  Returned =>
    /\ Len(Agg.scanners) = Len(SCANNERS)
    /\ \A k \in 1..Len(SCANNERS) :
         Cardinality({m \in DOMAIN Agg.scanners :
                        Agg.scanners[m].id = SCANNERS[k].id}) = 1

\* A returned batch in which every scanner failed, one of them by timeout and
\* one by rejection.
C1_Witness ==
  /\ Returned
  /\ \A i \in Idx : results[i].status = "error"
  /\ \E i \in Idx : TimerFiredFirst(i)
  /\ \E i \in Idx : RunRejectedFirst(i)

\* ---------------------------------------------------------------------- C2
\* C2 (isolation): the result recorded for a scanner changes only in a step
\* that runs that scanner's own .then or .catch callback; in particular the
\* step in which one scanner rejects or times out leaves the status, summary
\* and issues of every other scanner as they were.
C2_Isolation ==
  [][ Started =>
        \A j \in Idx :
          results'[j] # results[j] =>
            /\ chain[j].state \in {"pending", "catch"}
            /\ chain'[j] # chain[j]
            /\ \A k \in Idx \ {j} :
                 /\ results'[k].status = results[k].status
                 /\ results'[k].summary = results[k].summary
                 /\ results'[k].issues = results[k].issues ]_vars

\* One scanner has been recorded as failed by rejection, and its sibling is
\* recorded as complete with the summary and issues its run produced.
C2_Witness ==
  /\ Started
  /\ \E i \in Idx, j \in Idx :
       /\ i # j
       /\ results[i].status = "error"
       /\ RunRejectedFirst(i)
       /\ results[j].status = "complete"
       /\ results[j].summary = "found"
       /\ results[j].issues = <<"b", "c">>

\* ---------------------------------------------------------------------- C3
\* C3 (timeout enforcement): the deadline of a scanner is its own timeout if
\* it declares one and otherwise the default in force when the batch starts;
\* a scanner whose timer fired before its run settled is recorded, once its
\* .catch callback has run, with status error and the timeout message built
\* from its translated label and that deadline.
C3_TimeoutEnforcement ==
  [][ /\ (phase = "idle" /\ phase' # "idle") =>
           \A i \in Idx :
             timeoutMs'[i] =
               IF "timeout" \in DOMAIN SCANNERS[i]
                 THEN SCANNERS[i].timeout
                 ELSE DEFAULT_SCANNER_TIMEOUT
      /\ Started => timeoutMs' = timeoutMs
      /\ \A i \in DOMAIN race' :
           (race'[i].state = "rejected" /\ race'[i].by = "timer"
              /\ chain'[i].state = "settled") =>
             /\ results'[i].status = "error"
             /\ results'[i].error =
                  TimeoutMessage(Translate(SCANNERS[i].label), timeoutMs'[i]) ]_vars

\* A scanner without a timeout of its own, started under a default of 1000 ms,
\* is recorded as timed out after 1000 ms although its run resolved later, and
\* a scanner with its own timeout is recorded with that one.
C3_Witness ==
  /\ Started
  /\ results[2].status = "error"
  /\ results[2].error = TimeoutMessage("Email Authentication", 1000)
  /\ run[2] = "settled"
  /\ results[1].status = "error"
  /\ results[1].error = TimeoutMessage("DNS Records", 5000)

\* ---------------------------------------------------------------------- C4
\* C4: a call of runAllScanners never rejects (it resolves with an aggregate
\* whatever its scanners do).
C4_NeverRejects == phase # "rejected"

\* ---------------------------------------------------------------------- C5
\* C5: in the aggregate runAllScanners resolves with, every scanner's status
\* is complete or error; none is still running.
C5_AllTerminalAtReturn ==
  Returned =>
    \A m \in DOMAIN Agg.scanners : Terminal(Agg.scanners[m].status)

\* A returned batch with one completed and one timed-out scanner.
C5_Witness ==
  /\ Returned
  /\ \E i \in Idx : Agg.scanners[i].status = "complete"
  /\ \E i \in Idx : TimerFiredFirst(i) /\ Agg.scanners[i].status = "error"

\* ---------------------------------------------------------------------- C6
\* C6 (order preservation): the scanners list of the aggregate is in registry
\* order, whatever the order in which the scanners settled.
C6_OrderPreserved ==
  Returned =>
    /\ Len(Agg.scanners) = Len(SCANNERS)
    /\ \A k \in 1..Len(SCANNERS) :
         /\ Agg.scanners[k].id = SCANNERS[k].id
         /\ Agg.scanners[k].label = SCANNERS[k].label

\* A returned batch whose second scanner settled before the first: both timed
\* out, the second after 1000 ms and the first after 5000 ms.
C6_Witness ==
  /\ Returned
  /\ TimerFiredFirst(1)
  /\ TimerFiredFirst(2)
  /\ timeoutMs[2] < timeoutMs[1]
  /\ Agg.scanners[1].id = "dns"
  /\ Agg.scanners[2].id = "emailAuth"

\* ---------------------------------------------------------------------- C7
\* The issues the run of scanner i produced: those of the value it resolved
\* with if it won its race, none otherwise.
ProducedIssues(i) ==
  IF RunResolvedFirst(i) /\ "issues" \in DOMAIN race[i].value
    THEN race[i].value.issues
    ELSE <<>>

\* The issues produced by scanners 1..n, in registry order.
RECURSIVE ProducedUpTo(_)
ProducedUpTo(n) ==
  IF n = 0 THEN <<>> ELSE ProducedUpTo(n - 1) \o ProducedIssues(n)

\* C7 (issue flattening): the issues of the aggregate are the issues the
\* scanners produced, scanner by scanner in registry order and in each
\* scanner's own order; a scanner without issues contributes nothing.
C7_IssueFlattening ==
  Returned => Agg.issues = ProducedUpTo(Len(SCANNERS))

\* A returned batch whose first scanner produced ['a'] and whose second
\* produced ['b','c'].
C7_Witness ==
  /\ Returned
  /\ ProducedIssues(1) = <<"a">>
  /\ ProducedIssues(2) = <<"b", "c">>
  /\ Agg.issues = <<"a", "b", "c">>

C9_SnapshotShape ==
  [][ callCount' # callCount =>
        /\ Len(lastCall'[1].snapshot) = Len(SCANNERS)
        /\ \A i \in Idx :
             Unsettled(i)' => lastCall'[1].snapshot[i].status = "running" ]_vars

\* A progress call made while one scanner has finished and another has not.
C9_Witness ==
  /\ callCount = 2
  /\ \E i \in Idx, j \in Idx :
       /\ Unsettled(i)
       /\ lastCall[1].snapshot[i].status = "running"
       /\ Terminal(lastCall[1].snapshot[j].status)

\* --------------------------------------------------------------------- C10
AllRunning(snapshot) ==
  \A m \in DOMAIN snapshot : snapshot[m].status = "running"

AllTerminal(snapshot) ==
  \A m \in DOMAIN snapshot : Terminal(snapshot[m].status)

\* C10: with a callback, a batch over N scanners has made exactly N+1
\* onProgress calls when it returns: the first shows every scanner running,
\* the last shows every scanner in a terminal state.
C10_CallCount ==
  (Returned /\ onProgress = "fn") =>
    /\ callCount = Len(SCANNERS) + 1
    /\ AllRunning(firstCall[1].snapshot)
    /\ AllTerminal(lastCall[1].snapshot)

\* --------------------------------------------------------------------- C11
\* What the claim calls invalid: zero, negative, or not finite.
ZeroNegativeOrNotFinite(ms) == ~ms.finite \/ ms.value <= 0

\* C11: setScannerTimeout throws on every value that is zero, negative or not
\* finite (Infinity, -Infinity, NaN) and then leaves the default as it was; it
\* accepts every finite positive value, which becomes the default; so the
\* default in effect is always a finite positive number.
C11_InvalidTimeoutRejected ==
  [][ /\ \A ms \in TimeoutInputs :
           setScannerTimeout(ms) =>
             IF ZeroNegativeOrNotFinite(ms)
               THEN /\ thrown' = << NewError(PlainMessage("Invalid timeout value")) >>
                    /\ DEFAULT_SCANNER_TIMEOUT' = DEFAULT_SCANNER_TIMEOUT
               ELSE /\ thrown' = <<>>
                    /\ DEFAULT_SCANNER_TIMEOUT' = ms.value
      /\ DEFAULT_SCANNER_TIMEOUT' \in Nat \ {0} ]_vars

\* The default was set to 1000, a later call threw, and a batch started after
\* that runs its scanner without a timeout of its own under 1000 ms.
C11_Witness ==
  /\ thrown # <<>>
  /\ DEFAULT_SCANNER_TIMEOUT = 1000
  /\ Started
  /\ timeoutMs[2] = 1000

\* --------------------------------------------------------------------- C12
\* C12: a change of the default leaves a batch in flight as it is: every
\* scanner keeps the deadline and the timer it got when the batch started.  A
\* batch that starts gives each scanner that declares a timeout that timeout,
\* whatever the default is, and every other scanner the default of that moment.
C12_DefaultChangeScope ==
  [][ /\ DEFAULT_SCANNER_TIMEOUT' # DEFAULT_SCANNER_TIMEOUT =>
           UNCHANGED << timeoutMs, timer, race, results, phase >>
      /\ Started => timeoutMs' = timeoutMs
      /\ (~Started /\ Started') =>
           \A i \in Idx :
             /\ "timeout" \in DOMAIN SCANNERS[i] =>
                  timeoutMs'[i] = SCANNERS[i].timeout
             /\ "timeout" \notin DOMAIN SCANNERS[i] =>
                  timeoutMs'[i] = DEFAULT_SCANNER_TIMEOUT ]_vars

\* A batch started under the default of 30000 ms; the default was then set to
\* 1000 ms, and the scanner without a timeout of its own still timed out after
\* 30000 ms.
C12_Witness ==
  /\ Started
  /\ DEFAULT_SCANNER_TIMEOUT = 1000
  /\ timeoutMs[2] = 30000
  /\ TimerFiredFirst(2)
  /\ results[2].error = TimeoutMessage("Email Authentication", 30000)

\* --------------------------------------------------------------------- C13
\* A runScanner call has been made.
OneCalled == one.phase # "idle"

\* A string that is the id of no registered scanner.
Unregistered(str) == Matches(str) = {}

\* C13: a call whose first argument is the id of a registered scanner and
\* whose second argument is the domain runs that scanner, and the result it
\* returns carries that id.
C13_IdThenDomain ==
  \A k \in Idx :
    (OneCalled /\ one.args[1] = IdString(SCANNERS[k].id)
       /\ Unregistered(one.args[2])) =>
      /\ one.phase # "rejected"
      /\ OneStarted
      /\ one.scanner = k
      /\ one.phase = "returned" => one.value.id = SCANNERS[k].id

\* --------------------------------------------------------------------- C14
\* C14: a runScanner call whose scannerId names no registered scanner rejects
\* with the error 'Scanner not found: <scannerId>' and invokes no run, and a
\* step of a runScanner call changes nothing of a batch.
C14_UnknownId ==
  [][ /\ (OneCalled' /\ Unregistered(one'.args[2])) =>
           /\ one'.phase = "rejected"
           /\ one'.reason.isError
           /\ one'.reason.message =
                [text |-> "Scanner not found: ", scannerId |-> one'.args[2]]
           /\ ~OneStarted'
      /\ one' # one => UNCHANGED << batchVars, DEFAULT_SCANNER_TIMEOUT >> ]_vars

\* A runScanner call with an unknown id has failed while a batch is in flight
\* with one scanner finished and the other still running.
C14_Witness ==
  /\ one.phase = "rejected"
  /\ Unregistered(one.args[2])
  /\ phase = "awaiting"
  /\ \E i \in Idx, j \in Idx :
       results[i].status = "complete" /\ results[j].status = "running"

\* --------------------------------------------------------------------- C15
\* C15: for a registered scanner, runScanner races the run against the
\* scanner's own timeout or else the default of the moment of the call, and
\* converts the outcome as runAllScanners does: a run that resolves first
\* gives status complete with the run's summary and issues; a run that rejects
\* first gives status error with the Error's message ('Unknown error' for
\* anything else); the timer firing first gives status error with the timeout
\* message for the translated label and the deadline.  The call never rejects.
C15_OneSameConversion ==
  [][ /\ (~OneStarted /\ OneStarted') =>
           one'.timeoutMs =
             IF "timeout" \in DOMAIN SCANNERS[one'.scanner]
               THEN SCANNERS[one'.scanner].timeout
               ELSE DEFAULT_SCANNER_TIMEOUT
      /\ OneStarted' =>
           LET sc == SCANNERS[one'.scanner]
               rc == one'.race
           IN /\ one'.phase # "rejected"
              /\ (rc.state = "pending") = (one'.phase = "awaiting")
              /\ rc.state = "fulfilled" =>
                   /\ one'.value.status = "complete"
                   /\ one'.value.id = sc.id
                   /\ one'.value.summary = rc.value.summary
                   /\ one'.value.issues =
                        Completed(Base(sc), sc, rc.value).issues
              /\ rc.state = "rejected" =>
                   /\ one'.value.status = "error"
                   /\ one'.value.id = sc.id
                   /\ one'.value.error = Failed(Base(sc), rc.reason).error
              /\ (rc.state = "rejected" /\ rc.by = "run") =>
                   one'.value.error =
                     IF rc.reason.isError THEN rc.reason.message
                                          ELSE [text |-> "Unknown error"]
              /\ (rc.state = "rejected" /\ rc.by = "timer") =>
                   one'.value.error =
                     TimeoutMessage(Translate(sc.label), one'.timeoutMs) ]_vars

\* A runScanner call for the scanner without a timeout of its own, made under
\* a default of 1000 ms, has returned the timeout error while a batch is in
\* flight.
C15_Witness ==
  /\ one.phase = "returned"
  /\ one.race.state = "rejected"
  /\ one.race.by = "timer"
  /\ one.value.status = "error"
  /\ one.value.error = TimeoutMessage("Email Authentication", 1000)
  /\ phase = "awaiting"

\* --------------------------------------------------------------------- C16
Interpreted == interpretation # <<>>

\* C16: a result with status error is interpreted with severity error,
\* whatever its id; the message is the captured error text, or the generic
\* 'Scanner failed to execute' when that text is absent or empty; the
\* recommendation is the generic retry hint.
C16_ErrorInterpretation ==
  (Interpreted /\ subject[1].status = "error") =>
    /\ interpretation[1].severity = "error"
    /\ interpretation[1].message =
         IF "error" \in DOMAIN subject[1] /\ subject[1].error # [text |-> ""]
           THEN subject[1].error
           ELSE [text |-> "Scanner failed to execute"]
    /\ interpretation[1].recommendation =
         [text |-> "This check could not be completed. Please try again or check your network connection."]

\* A failed result of the certificates scanner that carries the text
\* 'Test error' and a list of issues has been interpreted.
C16_Witness ==
  /\ Interpreted
  /\ subject[1].status = "error"
  /\ subject[1].id = "certificates"
  /\ "issues" \in DOMAIN subject[1]
  /\ subject[1].issues # <<>>
  /\ interpretation[1].message = [text |-> "Test error"]

\* --------------------------------------------------------------------- C17
\* The ids for which the switch names a scanner-specific function.
WithClassifier ==
  {"dns", "emailAuth", "certificates", "rdap", "sslLabs", "securityHeaders"}

\* C17: a result that is not failed and whose id has no scanner-specific
\* function is interpreted with severity success when it has no issues list
\* or an empty one, and with severity warning when it has at least one issue.
C17_GenericFallback ==
  (Interpreted /\ subject[1].status # "error"
     /\ subject[1].id \notin WithClassifier) =>
    interpretation[1].severity =
      IF "issues" \notin DOMAIN subject[1] \/ subject[1].issues = <<>>
        THEN "success"
        ELSE "warning"

\* A complete result of an unknown scanner with one issue has been
\* interpreted as a warning.
C17_Witness ==
  /\ Interpreted
  /\ subject[1].id = "unknown"
  /\ subject[1].status = "complete"
  /\ "issues" \in DOMAIN subject[1]
  /\ subject[1].issues = <<"issue 1">>
  /\ interpretation[1].severity = "warning"

\* --------------------------------------------------------------------- C18
\* C18: a runScanners call that misses the cache and is refused by the rate
\* limiter does not call runAllScanners - no batch is started and nothing of
\* the batch, of the shown or stored aggregate or of the cache changes - and
\* it fails with an error that carries the number of seconds the rate limiter
\* reported; a batch is started only by a call that missed the cache and was
\* allowed.
C18_RateLimited ==
  [][ /\ (scan' # scan /\ scan.phase # "awaiting" /\ scan'.cached = <<>>
            /\ ~scan'.rateCheck.allowed) =>
           /\ UNCHANGED << batchVars, domainScanAggregate, storedAggregate,
                           cache >>
           /\ scan'.phase = "rejected"
           /\ scan'.reason.isError
           /\ scan'.reason.message.retryAfter = scan'.rateCheck.retryAfter
      /\ (~Started /\ Started') =>
           /\ scan'.phase = "awaiting"
           /\ scan'.cached = <<>>
           /\ scan'.rateCheck.allowed ]_vars

\* A call for a domain that is not cached was refused with 'wait 30 seconds'
\* and no batch has been started.
C18_Witness ==
  /\ scan.phase = "rejected"
  /\ scan.cached = <<>>
  /\ scan.rateCheck = [allowed |-> FALSE, retryAfter |-> 30]
  /\ scan.reason.message.retryAfter = 30
  /\ ~Started

\* --------------------------------------------------------------------- C19
\* C19: terminal states are absorbing: once a scanner's result has status
\* complete or error, its status never changes again in that batch.
C19_TerminalAbsorbing ==
  [][ Started =>
        \A i \in Idx :
          Terminal(results[i].status) =>
            results'[i].status = results[i].status ]_vars

\* --------------------------------------------------------------------- C20
\* C20: only the winner of the race between a scanner's run and its timer
\* determines its result: once the race is decided, the later settlement of
\* the run or expiry of the timer changes neither the results, nor the
\* aggregate (also after the call has returned), nor the outcome of the race,
\* and makes no progress call.
C20_WinnerOnly ==
  [][ Started =>
        \A i \in Idx :
          (~Unsettled(i) /\ (run'[i] # run[i] \/ timer'[i] # timer[i])) =>
            /\ results' = results
            /\ aggregate' = aggregate
            /\ race' = race
            /\ chain' = chain
            /\ callCount' = callCount ]_vars

\* A returned batch in which one scanner timed out and its run resolved or
\* rejected afterwards, and the other completed and its timer fired afterwards;
\* the aggregate still shows the timeout and the completion.
C20_Witness ==
  /\ Returned
  /\ TimerFiredFirst(1)
  /\ run[1] = "settled"
  /\ Agg.scanners[1].status = "error"
  /\ Agg.scanners[1].error = TimeoutMessage("DNS Records", 5000)
  /\ RunResolvedFirst(2)
  /\ timer[2] = "fired"
  /\ Agg.scanners[2].status = "complete"

\* --------------------------------------------------------------------- C21
\* C21: in runAllScanners, once the run of any scanner has been invoked, every
\* registered scanner has its result in results, created with status running
\* and with its startedAt recorded.
C21_AllCreatedBeforeAnyRun ==
  run # <<>> =>
    \A k \in 1..Len(SCANNERS) :
      /\ k \in DOMAIN results
      /\ results[k].id = SCANNERS[k].id
      /\ "startedAt" \in DOMAIN results[k]
      /\ (k \in DOMAIN run /\ run[k] = "pending" /\ race[k].state = "pending") =>
           results[k].status = "running"

\* --------------------------------------------------------------------- C22
\* What a call without a callback has recorded for a scanner whose race is in
\* the state rc: the base as created, the completion, or the failure.
RecordedFor(scanner, rc) ==
  CASE rc.state = "pending" -> Base(scanner)
    [] rc.state = "fulfilled" -> Completed(Base(scanner), scanner, rc.value)
    [] rc.state = "rejected" -> Failed(Base(scanner), rc.reason)

\* C22: concurrent calls are independent.  A step that writes the results of
\* one runAllScanners call is a step of that call and leaves the results and
\* the aggregate of the other call and the runScanner call as they are; a step
\* of the runScanner call leaves both runAllScanners calls as they are; and at
\* every moment what each call holds for a scanner is what its own run and
\* timer produced, whatever the other calls did for the same or for another
\* domain.
C22_Independent ==
  [][ /\ (Started /\ results' # results) =>
           /\ \E i \in Idx : race'[i] # race[i]
           /\ second' = second
           /\ one' = one
      /\ (SecondStarted /\ second'.results # second.results) =>
           /\ \E i \in Idx : second'.race[i] # second.race[i]
           /\ UNCHANGED << results, aggregate, race, run, timer >>
           /\ one' = one
      /\ one' # one =>
           /\ UNCHANGED << results, aggregate, race, run, timer >>
           /\ second' = second
      /\ Started' =>
           \A i \in Idx : results'[i] = RecordedFor(SCANNERS[i], race'[i])
      /\ SecondStarted' =>
           \A i \in Idx :
             second'.results[i] = RecordedFor(SCANNERS[i], second'.race[i])
      /\ one'.phase = "returned" =>
           /\ one'.value.status =
                RecordedFor(SCANNERS[one'.scanner], one'.race).status
           /\ one'.race.state = "fulfilled" =>
                one'.value.summary = one'.race.value.summary
           /\ one'.race.state = "rejected" =>
                one'.value.error = ErrorText(one'.race.reason) ]_vars

\* Two calls for the same domain have returned and a runScanner call for the
\* dns scanner has returned too: the first call has dns complete with its
\* summary 'ok', the second has dns failed with 'Unknown error', and the
\* runScanner call returned the dns result with the summary 'found'.
C22_Witness ==
  /\ Returned
  /\ second.phase = "returned"
  /\ second.trimmed = trimmed
  /\ Agg.scanners[1].status = "complete"
  /\ Agg.scanners[1].summary = "ok"
  /\ second.aggregate.scanners[1].status = "error"
  /\ second.aggregate.scanners[1].error = PlainMessage("Unknown error")
  /\ one.phase = "returned"
  /\ one.value.status = "complete"
  /\ one.value.summary = "found"

\* --------------------------------------------------------------------- C23
\* A runScanners call has missed the cache and started a batch.
FirstScanned == scan.phase \in {"awaiting", "resolved"} /\ scan.cached = <<>>

SecondScanned ==
  secondScan.phase \in {"awaiting", "resolved"} /\ secondScan.cached = <<>>

\* C23: two overlapping runScanners calls for the same normalised domain never
\* both miss the cache and both run a batch.
C23_NoDoubleMiss ==
  ~ /\ FirstScanned
    /\ SecondScanned
    /\ CacheKey(scan.domain) = CacheKey(secondScan.domain)
    /\ Started
    /\ SecondStarted

\* --------------------------------------------------------------------- C30
\* Both runScanners calls have run a batch and have finished.
BothFinished ==
  /\ FirstScanned /\ scan.phase = "resolved"
  /\ SecondScanned /\ secondScan.phase = "resolved"

\* The aggregate the call that was started later produced.
LaterAggregate == normalizeAggregate(second.aggregate)

\* C30: after two overlapping runScanners calls have finished, the aggregate
\* the provider shows, the one it cached for the later call's domain and, if
\* the later call could store it, the stored one are the aggregate of the call
\* that was started later.
C30_LaterCallWins ==
  BothFinished =>
    /\ domainScanAggregate = << LaterAggregate >>
    /\ CacheGet(secondScan.domain) = << LaterAggregate >>
    /\ secondScan.persisted = "stored" => storedAggregate = << LaterAggregate >>

\* --------------------------------------------------------------------- C24
\* The scanners list with the issues of every scanner that lost its race to a
\* rejection or to its timer left out.
WithoutFailed(scanners) ==
  [k \in DOMAIN scanners |->
     IF RunResolvedFirst(k) THEN scanners[k] ELSE [issues |-> <<>>]]

\* C24: in the aggregate, a scanner whose run rejected or whose timer fired
\* first has status error and an error text, an empty issues list and neither
\* summary nor data, and the aggregate's issues list is what it would be
\* without those scanners.
C24_FailureAddsNoIssue ==
  Returned =>
    /\ \A i \in Idx :
         (RunRejectedFirst(i) \/ TimerFiredFirst(i)) =>
           /\ Agg.scanners[i].status = "error"
           /\ "error" \in DOMAIN Agg.scanners[i]
           /\ Agg.scanners[i].issues = <<>>
           /\ Agg.scanners[i].summary = Undefined
           /\ Agg.scanners[i].data = Undefined
    /\ Agg.issues = FlatMapIssues(WithoutFailed(Agg.scanners))

\* A returned batch whose first scanner completed with the issue 'a' and whose
\* second scanner timed out: the aggregate's issues are ['a'].
C24_Witness ==
  /\ Returned
  /\ RunResolvedFirst(1)
  /\ Agg.scanners[1].issues = <<"a">>
  /\ TimerFiredFirst(2)
  /\ Agg.scanners[2].status = "error"
  /\ Agg.issues = <<"a">>


\* --------------------------------------------------------------------- C25
\* The scanner with this id was run and its run settled.
ProbeOf(id) == probe.phase = "settled" /\ probe.scanner.id = id

\* Every lookup of the run answered and there was nothing to find: no answer
\* of any DNS record type, or no certificate that belongs to the domain.
NoDataFound ==
  \/ /\ ProbeOf("dns")
     /\ \A t \in DOMAIN DnsTypes : probe.upstream[t] = Ok(<<>>)
  \/ /\ ProbeOf("certificates")
     /\ probe.upstream.kind = "ok"
     /\ probe.outcome.value.data.totalFound = 0

\* C25: a run that finds no data for the domain is recorded complete with
\* issues that describe the absence, and interpretScannerResult gives that
\* result the severity info.  Violated in SpecProbe: the dns run that finds no
\* record is recorded complete with two issues (noRecords, noMX) and
\* interpretDnsResult gives one or two issues the severity warning.
C25_NoDataIsInfo ==
  (NoDataFound /\ interpretation # <<>>)
    => /\ subject[1].status = "complete"
       /\ subject[1].issues # <<>>
       /\ interpretation[1].severity = "info"

\* --------------------------------------------------------------------- C26
\* An upstream call failed: the network failed or the response was not 2xx.
UpstreamFailed(up) == up.kind # "ok"

\* Every upstream call the settled run made has failed.
EveryCallFailed ==
  \/ /\ ProbeOf("dns")
     /\ \A t \in DOMAIN DnsTypes : UpstreamFailed(probe.upstream[t])
  \/ /\ ProbeOf("emailAuth")
     /\ UpstreamFailed(probe.upstream.root)
     /\ UpstreamFailed(probe.upstream.dmarc)
     /\ \A m \in DOMAIN probe.upstream.dkim :
          UpstreamFailed(probe.upstream.dkim[m])
  \/ /\ ProbeOf("certificates")
     /\ UpstreamFailed(probe.upstream)
  \/ /\ ProbeOf("rdap")
     /\ Len(Split(probe.domain)) >= 2
     /\ UpstreamFailed(probe.upstream.bootstrap)

\* C26: when the upstream calls of a scanner fail, its run rejects and
\* runAllScanners records it with status error.  Violated in SpecProbe: the
\* emailAuth run turns every failed lookup into an empty answer, the rdap run
\* catches what the bootstrap fetch throws, the dns run gets no record from a
\* failed lookup; each resolves and is recorded complete.
C26_FailureRejects ==
  EveryCallFailed
    => /\ probe.outcome.settled = "rejected"
       /\ subject # <<>> => subject[1].status = "error"


\* --------------------------------------------------------------------- C27
\* C27: a scanner whose run resolved before its deadline is recorded complete
\* in the aggregate whatever onProgress does.  Violated in Spec: when the
\* notification of the completion throws, the .catch callback of the same
\* chain overwrites the completed result with status error.
C27_ResolvedIsComplete ==
  aggregate # <<>>
    => \A i \in Idx :
         race[i].state = "fulfilled"
           => aggregate[1].scanners[i].status = "complete"

\* --------------------------------------------------------------------- C28
\* What the entries of the array handed over in a call read as now: the array
\* is a copy ([...results]), its elements are the base objects themselves.
Retained(call) == [m \in DOMAIN call.snapshot |-> results[m]]

\* C28: a snapshot handed to onProgress is a point-in-time value, later
\* settlements do not change what is read from its entries.  Violated in
\* Spec: the entries of the first snapshot are the objects the .then and
\* .catch callbacks assign to, so they change with every settlement.
C28_SnapshotIsValue ==
  firstCall # <<>> => Retained(firstCall[1]) = firstCall[1].snapshot

\* --------------------------------------------------------------------- C29
\* The runScanner call has returned a result for scanner i, the batch has
\* recorded scanner i, and the two races ended the same way: fulfilled with
\* the same value, or rejected with the same reason by the same party.
SameOutcome(i) ==
  /\ Started
  /\ chain[i].state = "settled"
  /\ one.phase = "returned"
  /\ one.scanner = i
  /\ one.race = race[i]

\* Reading a property that holds a string or is undefined.
Read(result, f) == IF f \in DOMAIN result THEN result[f] ELSE Undefined

\* Two results agree on a property that holds an object or is absent.
SameProperty(a, b, f) ==
  /\ (f \in DOMAIN a) = (f \in DOMAIN b)
  /\ f \in DOMAIN a => a[f] = b[f]

\* C29: for the same scanner and the same run outcome, the result of
\* runScanner and the scanner's entry in the batch agree on status, error,
\* summary, data, issues and dataSource.  Violated in SpecOne: for a failed
\* scanner the batch entry has issues [] and the runScanner result has no
\* issues property.
C29_SameResult ==
  \A i \in Idx :
    SameOutcome(i)
      => /\ \A f \in {"status", "summary", "data", "dataSource"} :
              Read(one.value, f) = Read(results[i], f)
         /\ \A f \in {"error", "issues"} :
              SameProperty(one.value, results[i], f)

====
